---- MODULE Spec2Model ----
(***************************************************************************)
(* A model of the instance-catalog engine of sims_catalogs:                *)
(*   python/lsst/sims/catalogs/definitions/InstanceCatalog.py              *)
(* The catalog-type registry kept by the metaclass, the construction of a  *)
(* catalog instance (probe pass and requirement check), the column         *)
(* resolver column_by_name and the three emission modes.                   *)
(***************************************************************************)
EXTENDS Integers, Sequences, FiniteSets, TLC

(***************************************************************************)
(* Bounds of the model.                                                    *)
(***************************************************************************)
\* class statements executed after the base class InstanceCatalog
MaxClasses == 2
\* write_catalog / iter_catalog / iter_catalog_chunks calls on the instance
MaxCalls == 2

(***************************************************************************)
(* Generic helpers on sequences and dictionaries (functions).              *)
(***************************************************************************)
Range(s) == {s[i] : i \in DOMAIN s}

\* F applied to the value of e: binds an intermediate result to a name
With(e, F(_)) == F(e)

Contains(s, x) == \E i \in DOMAIN s : s[i] = x

RECURSIVE SeqFilter(_, _)
\* the elements of s that are in the set keep, in order
SeqFilter(s, keep) ==
    IF s = <<>> THEN <<>>
    ELSE (IF Head(s) \in keep THEN <<Head(s)>> ELSE <<>>) \o SeqFilter(Tail(s), keep)

RECURSIVE AppendNew(_, _)
\* for name in names: if name not in lst: lst.append(name)
AppendNew(lst, names) ==
    IF names = <<>> THEN lst
    ELSE AppendNew(IF Contains(lst, Head(names)) THEN lst ELSE Append(lst, Head(names)),
                   Tail(names))

\* d[k] = v on a dict
DictSet(d, k, v) == [x \in DOMAIN d \cup {k} |-> IF x = k THEN v ELSE d[x]]

EmptyDict == [x \in {} |-> 0]

(***************************************************************************)
(* InstanceCatalogMeta.convert_to_underscores, on class names written as   *)
(* sequences of one-character strings.                                     *)
(***************************************************************************)
UpperChars == {"C", "D", "G", "S"}
LowerChars == {"a", "c", "l", "p", "r", "s", "t", "u"}
DigitChars == {"2"}

\* str.lower() on one character
CharLower(ch) ==
    CASE ch = "C" -> "c"
      [] ch = "D" -> "d"
      [] ch = "G" -> "g"
      [] ch = "S" -> "s"
      [] OTHER -> ch

RECURSIVE LowerRunEnd(_, _)
\* the index of the last character of the run [a-z]+ that starts at i
LowerRunEnd(s, i) ==
    IF i + 1 <= Len(s) /\ s[i + 1] \in LowerChars THEN LowerRunEnd(s, i + 1) ELSE i

RECURSIVE ReSub1(_, _)
\* re.sub('(.)([A-Z][a-z]+)', r'\1_\2', s), scanning from index i
ReSub1(s, i) ==
    IF i > Len(s) THEN <<>>
    ELSE IF i + 2 <= Len(s) /\ s[i + 1] \in UpperChars /\ s[i + 2] \in LowerChars
         THEN LET j == LowerRunEnd(s, i + 2)
              IN  <<s[i], "_">> \o SubSeq(s, i + 1, j) \o ReSub1(s, j + 1)
         ELSE <<s[i]>> \o ReSub1(s, i + 1)

RECURSIVE ReSub2(_, _)
\* re.sub('([a-z0-9])([A-Z])', r'\1_\2', s), scanning from index i
ReSub2(s, i) ==
    IF i > Len(s) THEN <<>>
    ELSE IF i + 1 <= Len(s) /\ s[i] \in (LowerChars \cup DigitChars) /\ s[i + 1] \in UpperChars
         THEN <<s[i], "_", s[i + 1]>> \o ReSub2(s, i + 2)
         ELSE <<s[i]>> \o ReSub2(s, i + 1)

RECURSIVE JoinChars(_)
JoinChars(s) == IF s = <<>> THEN "" ELSE Head(s) \o JoinChars(Tail(s))

\* str.lower()
StrLower(s) == [i \in DOMAIN s |-> CharLower(s[i])]

convert_to_underscores(name) == JoinChars(StrLower(ReSub2(ReSub1(name, 1), 1)))


(***************************************************************************)
(* Values.  A cell is one element of a numpy column; a column carries its  *)
(* dtype kind ("S" text, "f" float, "i" integer, "O" object) and its cells.*)
(* n is the number held by an "i"/"f" cell, s the text of an "S"/"O" cell  *)
(* ("nan" in s marks a float NaN).                                         *)
(***************************************************************************)
Cell(n, s) == [n |-> n, s |-> s]

Column(kind, vals) == [kind |-> kind, vals |-> vals]

\* numpy.empty(0): what _MimicRecordArray.__getitem__ returns
EmptyColumn == Column("f", <<>>)

Digit(d) == CASE d = 0 -> "0" [] d = 1 -> "1" [] d = 2 -> "2" [] d = 3 -> "3"
              [] d = 4 -> "4" [] d = 5 -> "5" [] d = 6 -> "6" [] d = 7 -> "7"
              [] d = 8 -> "8" [] d = 9 -> "9"

RECURSIVE NatToStr(_)
NatToStr(n) == IF n < 10 THEN Digit(n) ELSE NatToStr(n \div 10) \o Digit(n % 10)

IntToStr(n) == IF n < 0 THEN "-" \o NatToStr(0 - n) ELSE NatToStr(n)

\* column.astype('str') on one cell
astype_str(kind, cell) ==
    CASE kind = "i" -> IntToStr(cell.n)
      [] kind = "f" -> IF cell.s = "nan" THEN "nan" ELSE IntToStr(cell.n) \o ".0"
      [] OTHER -> cell.s

\* numpy.char.lower on one string (the texts that occur in the sources below)
char_lower(str) ==
    CASE str = "None" -> "none"
      [] str = "NULL" -> "null"
      [] str = "NaN" -> "nan"
      [] OTHER -> str

(***************************************************************************)
(* Attribute names.  A getter of column c is the attribute "get_" + c, a   *)
(* default of c the attribute "default_" + c.                              *)
(***************************************************************************)
\* every string that follows "get_" or "default_" in an attribute name
ColUniverse == {"a", "b", "c", "columns", "d", "formats", "id", "objId", "p", "pq",
                "q", "qc", "uniqueId"}

GetAttr(col) == "get_" \o col

DefaultAttr(col) == "default_" \o col

\* name[:4] == 'get_'
IsGetAttr(name) == \E c \in ColUniverse : name = "get_" \o c

\* name[:8] == 'default_'
IsDefaultAttr(name) == \E c \in ColUniverse : name = "default_" \o c

\* name[4:] of a get_ attribute, name[8:] of a default_ attribute
StripPrefix(name) ==
    CHOOSE c \in ColUniverse : name = "get_" \o c \/ name = "default_" \o c

\* dir() lists attribute names alphabetically: the attribute names of the
\* model in that order
DirOrder == <<"default_a", "default_c", "default_columns", "default_d",
              "default_formats", "get_a", "get_c", "get_objId", "get_p", "get_pq", "get_q",
              "get_qc", "get_uniqueId">>

(***************************************************************************)
(* Getters.  The body of a getter belongs to the catalog type that defines *)
(* it; the model knows five shapes:                                         *)
(*   objId, uniqueId : the two getters of InstanceCatalog itself           *)
(*   copy     : asks column_by_name for each name of deps, returns the     *)
(*              first column asked for                                     *)
(*   fill     : reads the column deps[1] of the current chunk itself       *)
(*              (self._current_chunk[name]) and returns it with "0" in     *)
(*              the place of every value that reads none, nan or null      *)
(*   compound : carries _compound_column and _colnames; asks for each name *)
(*              of deps and returns the first column under every name of   *)
(*              colnames                                                   *)
(***************************************************************************)
Getter(kind, colnames, deps, cls) ==
    [kind |-> kind, colnames |-> colnames, deps |-> deps, defined_in |-> cls]

\* hasattr(getter, '_compound_column')
IsCompoundGetter(g) == g.kind = "compound"

(***************************************************************************)
(* The class InstanceCatalog itself (source lines 129-142, 583-592).       *)
(***************************************************************************)
\* a class attribute that may be None
None == [none |-> TRUE, v |-> <<>>]

Some(v) == [none |-> FALSE, v |-> v]

RootName == "InstanceCatalog"

RootClass ==
    [name |-> RootName,
     catalog_type |-> "instance_catalog",
     getters |-> [a \in {"get_objId", "get_uniqueId"} |->
                    IF a = "get_objId" THEN Getter("objId", <<>>, <<>>, RootName)
                    ELSE Getter("uniqueId", <<>>, <<>>, RootName)],
     default_attrs |-> EmptyDict,
     column_outputs |-> None,
     default_columns |-> <<>>,
     cannot_be_null |-> <<>>,
     default_formats |-> [k \in {"S", "f", "i"} |->
                            CASE k = "S" -> "%s" [] k = "f" -> "%.4f" [] k = "i" -> "%i"],
     override_formats |-> EmptyDict,
     transformations |-> EmptyDict,
     delimiter |-> ", ",
     comment_char |-> "#",
     endline |-> "\n",
     _pre_screen |-> FALSE,
     _cached_columns |-> EmptyDict,
     _compound_columns |-> EmptyDict,
     _compound_column_names |-> EmptyDict,
     defined |-> TRUE]

\* the configuration attributes a class body may assign
ConfigAttrs == {"column_outputs", "default_columns", "cannot_be_null", "default_formats",
                "override_formats", "transformations", "delimiter", "comment_char",
                "endline", "_pre_screen"}

(***************************************************************************)
(* The class statements the model executes: for each, the class name, the  *)
(* name of its base class, the getters its body defines and the attributes *)
(* its body assigns (dct); every other attribute is inherited.             *)
(***************************************************************************)
DefaultCol(name, cell, kind) == [name |-> name, value |-> cell, kind |-> kind]

ClassBody(name, base, getters, dct) ==
    [name |-> name, base |-> base, getters |-> getters, dct |-> dct]

\* class StarCat(InstanceCatalog): a getter for c, defaults for a, c and d
StarCatBody ==
    ClassBody(<<"S", "t", "a", "r", "C", "a", "t">>, RootName,
              [a \in {"get_c"} |-> Getter("copy", <<>>, <<"b">>, "StarCat")],
              [a \in {"default_columns", "column_outputs", "cannot_be_null",
                      "transformations"} |->
                 CASE a = "default_columns" ->
                        <<DefaultCol("a", Cell(0, "None"), "S"),
                          DefaultCol("c", Cell(9, ""), "i"),
                          DefaultCol("d", Cell(7, ""), "i")>>
                   [] a = "column_outputs" -> Some(<<"a", "c", "d">>)
                   [] a = "cannot_be_null" -> <<"a", "zz", "c">>
                   [] a = "transformations" -> [c \in {"d"} |-> "double"]])

\* class starCat(InstanceCatalog): its derived catalog_type is star_cat too;
\* its default_formats has a format for integers only
LowerStarCatBody ==
    ClassBody(<<"s", "t", "a", "r", "C", "a", "t">>, RootName, EmptyDict,
              [a \in {"column_outputs", "default_formats"} |->
                 CASE a = "column_outputs" -> Some(<<"a", "b">>)
                   [] a = "default_formats" -> [k \in {"i"} |-> "%i"]])

\* class GalCat(InstanceCatalog): a compound getter pq -> (p, q)
GalCatBody ==
    ClassBody(<<"G", "a", "l", "C", "a", "t">>, RootName,
              [a \in {"get_pq"} |-> Getter("compound", <<"p", "q">>, <<"b">>, "GalCat")],
              [a \in {"cannot_be_null", "_pre_screen"} |->
                 CASE a = "cannot_be_null" -> <<"b", "a">>
                   [] a = "_pre_screen" -> TRUE])

\* class SCat(GalCat): sets catalog_type, declares outputs, adds a getter
\* for q, which GalCat's compound getter claims
SCatBody ==
    ClassBody(<<"S", "C", "a", "t">>, "GalCat",
              [a \in {"get_q"} |-> Getter("copy", <<>>, <<"a">>, "SCat")],
              [a \in {"catalog_type", "column_outputs"} |->
                 CASE a = "catalog_type" -> "sub_cat"
                   [] a = "column_outputs" -> Some(<<"pq">>)])

\* class GalCat2(GalCat): declares outputs that name the compound getter,
\* a default for d whose value is a string, and an integer format for d
GalCat2Body ==
    ClassBody(<<"G", "a", "l", "C", "a", "t", "2">>, "GalCat", EmptyDict,
              [a \in {"column_outputs", "default_columns", "override_formats"} |->
                 CASE a = "column_outputs" -> Some(<<"a", "pq", "d">>)
                   [] a = "default_columns" -> <<DefaultCol("d", Cell(0, "None"), "S")>>
                   [] a = "override_formats" -> [c \in {"d"} |-> "%i"]])

\* class DupCat(InstanceCatalog): two compound getters that both claim q
DupCatBody ==
    ClassBody(<<"D", "u", "p", "C", "a", "t">>, RootName,
              [a \in {"get_pq", "get_qc"} |->
                 IF a = "get_pq" THEN Getter("compound", <<"p", "q">>, <<"b">>, "DupCat")
                 ELSE Getter("compound", <<"q", "c">>, <<"a">>, "DupCat")],
              [a \in {"catalog_type", "column_outputs"} |->
                 CASE a = "catalog_type" -> "dup_cat"
                   [] a = "column_outputs" -> Some(<<"pq">>)])

\* class CodeCat(InstanceCatalog): writes the code of the column formats
CodeCatBody ==
    ClassBody(<<"C", "o", "d", "e", "C", "a", "t">>, RootName, EmptyDict,
              [a \in {"column_outputs", "transformations"} |->
                 CASE a = "column_outputs" -> Some(<<"id", "formats">>)
                   [] a = "transformations" -> [c \in {"formats"} |-> "code"]])

\* class FillCat(InstanceCatalog): a is a column of the source and the name
\* of a getter that fills the gaps of that column; a is designated
FillCatBody ==
    ClassBody(<<"F", "i", "l", "l", "C", "a", "t">>, RootName,
              [a \in {"get_a"} |-> Getter("fill", <<>>, <<"a">>, "FillCat")],
              [a \in {"column_outputs", "cannot_be_null", "_pre_screen"} |->
                 CASE a = "column_outputs" -> Some(<<"id", "a">>)
                   [] a = "cannot_be_null" -> <<"a">>
                   [] a = "_pre_screen" -> TRUE])

ClassBodies == {StarCatBody, LowerStarCatBody, GalCatBody, SCatBody, GalCat2Body,
                DupCatBody}

(***************************************************************************)
(* Exceptions.  The source raises ValueError with different messages; exc  *)
(* names the message, names the column names the message lists.            *)
(*   DuplicateCatalogType : "Catalog Type %s is duplicated"                *)
(*   AmbiguousColumn      : "column name ... conflicts with getter ..." or *)
(*                          "duplicate compound column name: ..."          *)
(*   MissingColumns       : "Required columns missing from database: ..."  *)
(*   UnresolvableColumn   : the AttributeError of a missing default_ or of *)
(*                          a current chunk that is None                   *)
(*   FormatError          : the TypeError of `self._template % line` when  *)
(*                          a number format meets a value that is no number*)
(*   TransformError       : the exception a transformation raises, here the*)
(*                          KeyError of a value it has no code for         *)
(* ObservationMetaData raises RuntimeError, here InvalidContext; assigning *)
(* to one of its properties raises AttributeError, here ReadOnlyAttribute. *)
(***************************************************************************)
NoError == [exc |-> "", names |-> {}]

Error(exc, names) == [exc |-> exc, names |-> names]

(***************************************************************************)
(* InstanceCatalogMeta: the class statement.                               *)
(***************************************************************************)
\* the attributes of the new class: those of the class body, else the base's
Override(base, own) ==
    [a \in DOMAIN base \cup DOMAIN own |-> IF a \in DOMAIN own THEN own[a] ELSE base[a]]

\* InstanceCatalogMeta.__new__: the class object before __init__ has run
MetaNew(body, base) ==
    LET Attr(a) == IF a \in DOMAIN body.dct THEN body.dct[a] ELSE base[a]
    IN  [a \in ConfigAttrs |-> Attr(a)] @@
        [name |-> JoinChars(body.name),
         catalog_type |-> IF "catalog_type" \in DOMAIN body.dct THEN body.dct["catalog_type"]
                          ELSE convert_to_underscores(body.name),
         getters |-> Override(base.getters, body.getters),
         default_attrs |-> base.default_attrs,
         _cached_columns |-> EmptyDict,
         _compound_columns |-> EmptyDict,
         _compound_column_names |-> EmptyDict,
         defined |-> FALSE]

\* dir(obj) restricted to the names that start with get_ or default_
Dir(attrs) == SeqFilter(DirOrder, attrs)

RECURSIVE RegisterColnames_NoGetterCheck(_, _, _, _)
\* an inner loop that does not look for a getter named like the sub-column
RegisterColnames_NoGetterCheck(cls, key, cols, ccn) ==
    IF cols = <<>> THEN [err |-> NoError, ccn |-> ccn]
    ELSE IF Head(cols) \in DOMAIN ccn
         THEN [err |-> Error("AmbiguousColumn", {Head(cols)}), ccn |-> ccn]
         ELSE RegisterColnames_NoGetterCheck(cls, key, Tail(cols),
                                             DictSet(ccn, Head(cols), key))

RECURSIVE RegisterColnames(_, _, _, _)
\* for col in compound_getter._colnames: ... (the inner loop of __init__)
RegisterColnames(cls, key, cols, ccn) ==
    IF cols = <<>> THEN [err |-> NoError, ccn |-> ccn]
    ELSE IF GetAttr(Head(cols)) \in DOMAIN cls.getters
         THEN \* "column name ... conflicts with getter ..."
              [err |-> Error("AmbiguousColumn", {Head(cols)}), ccn |-> ccn]
         ELSE IF Head(cols) \in DOMAIN ccn
         THEN \* "duplicate compound column name: ..."
              [err |-> Error("AmbiguousColumn", {Head(cols)}), ccn |-> ccn]
         ELSE RegisterColnames(cls, key, Tail(cols), DictSet(ccn, Head(cols), key))

RECURSIVE RegisterCompounds(_, _, _, _)
\* for key in dir(cls): ... (the outer loop of __init__)
RegisterCompounds(cls, keys, cc, ccn) ==
    IF keys = <<>> THEN [err |-> NoError, cc |-> cc, ccn |-> ccn]
    ELSE IF ~IsCompoundGetter(cls.getters[Head(keys)])
         THEN RegisterCompounds(cls, Tail(keys), cc, ccn)
         ELSE With(RegisterColnames(cls, Head(keys), cls.getters[Head(keys)].colnames, ccn),
                   LAMBDA r :
                     IF r.err # NoError
                     THEN [err |-> r.err, cc |-> cc, ccn |-> r.ccn]
                     ELSE RegisterCompounds(cls, Tail(keys),
                                            DictSet(cc, Head(keys),
                                                    cls.getters[Head(keys)].colnames),
                                            r.ccn))

RECURSIVE SetDefaults(_, _)
\* for default in cls.default_columns: setattr(cls, 'default_%s' % default[0], ...)
SetDefaults(attrs, default_columns) ==
    IF default_columns = <<>> THEN attrs
    ELSE SetDefaults(DictSet(attrs, DefaultAttr(Head(default_columns).name),
                             Head(default_columns)),
                     Tail(default_columns))

\* the registry after `cls.registry[cls.catalog_type] = cls`; id is the class
RegistryAdd(reg, catalog_type, id) == DictSet(reg, catalog_type, id)

\* the class after the loop over dir(cls) has ended with result r
AfterCompounds(cls, r) ==
    [cls EXCEPT !._compound_columns = r.cc,
                !._compound_column_names = r.ccn,
                !.defined = (r.err = NoError)]

\* the class after the loop `for default in cls.default_columns`
WithDefaults(cls) == [cls EXCEPT !.default_attrs = SetDefaults(@, cls.default_columns)]

\* a registration that assigns the registry entry without looking first
MetaInit_Overwrite(cls, id, reg) ==
    With(WithDefaults(cls), LAMBDA cls1 :
      With(RegisterCompounds(cls1, Dir(DOMAIN cls1.getters), EmptyDict, EmptyDict),
           LAMBDA r :
             [err |-> r.err, cls |-> AfterCompounds(cls1, r),
              reg |-> RegistryAdd(reg, cls.catalog_type, id)]))

\* InstanceCatalogMeta.__init__ on the class object cls, which will be
\* classes[id]: the exception raised (or none), the class object and the
\* registry it leaves
MetaInit(cls, id, reg) ==
    IF cls.catalog_type \in DOMAIN reg
    THEN [err |-> Error("DuplicateCatalogType", {cls.catalog_type}), cls |-> cls, reg |-> reg]
    ELSE With(WithDefaults(cls), LAMBDA cls1 :
           With(RegisterCompounds(cls1, Dir(DOMAIN cls1.getters), EmptyDict, EmptyDict),
                LAMBDA r :
                  [err |-> r.err, cls |-> AfterCompounds(cls1, r),
                   reg |-> RegistryAdd(reg, cls.catalog_type, id)]))

(***************************************************************************)
(* The data source (db_obj), an external collaborator: its declared column *)
(* map, its id column, its object type id and the table it serves.         *)
(***************************************************************************)
StrCol(vals) == Column("S", [i \in DOMAIN vals |-> Cell(0, vals[i])])

IntCol(vals) == Column("i", [i \in DOMAIN vals |-> Cell(vals[i], "")])

TableA ==
    [col \in {"id", "a", "b"} |->
       CASE col = "id" -> IntCol(<<41, 42, 43, 44>>)
         [] col = "a" -> StrCol(<<"5", "None", "nan", "6">>)
         [] col = "b" -> StrCol(<<"x", "y", "z", "NULL">>)]

TableB ==
    [col \in {"id", "a", "b", "d", "columns", "formats"} |->
       CASE col = "id" -> IntCol(<<7, 8, 9>>)
         [] col = "a" -> StrCol(<<"u", "NaN", "w">>)
         [] col = "b" -> StrCol(<<"x", "y", "z">>)
         [] col = "d" -> IntCol(<<1, 2, 3>>)
         [] col = "columns" -> StrCol(<<"k", "l", "m">>)
         [] col = "formats" -> StrCol(<<"r", "s", "null">>)]

DbA == [columnMap |-> <<"id", "a", "b">>, idColKey |-> "id", objectTypeId |-> 3,
        verbose |-> TRUE, table |-> TableA, nrows |-> 4]

DbB == [columnMap |-> <<"id", "a", "b", "d", "columns", "formats">>, idColKey |-> "id",
        objectTypeId |-> 5, verbose |-> FALSE, table |-> TableB, nrows |-> 3]

\* the data sources of the model, by name
DbObjects == {"dbA", "dbB"}

DbObject(name) == IF name = "dbA" THEN DbA ELSE DbB

\* a record array: the columns named names, len rows
RecArray(names, cols, len) ==
    [tag |-> "recarray", names |-> names, cols |-> cols, len |-> len,
     referenced_columns |-> {}]

\* _MimicRecordArray(): no columns, length 0, an empty reference log
MimicRecordArray ==
    [tag |-> "mimic", names |-> <<>>, cols |-> EmptyDict, len |-> 0,
     referenced_columns |-> {}]

\* self._current_chunk = None
NoChunk ==
    [tag |-> "none", names |-> <<>>, cols |-> EmptyDict, len |-> 0,
     referenced_columns |-> {}]

\* column[good_dexes]
TakeRows(col, good_dexes) ==
    Column(col.kind, [i \in DOMAIN good_dexes |-> col.vals[good_dexes[i]]])

\* chunk[good_dexes]
TakeChunkRows(chunk, good_dexes) ==
    [chunk EXCEPT !.cols = [n \in DOMAIN chunk.cols |-> TakeRows(chunk.cols[n], good_dexes)],
                  !.len = Len(good_dexes)]

\* the batches db_obj.query_columns yields: the rows of the table in order,
\* chunk_size rows at a time (all at once when chunk_size is None, here 0),
\* each batch holding the requested columns
RECURSIVE Chunks(_, _, _, _)
Chunks(db, colnames, chunk_size, first) ==
    IF first > db.nrows THEN <<>>
    ELSE LET last == IF chunk_size = 0 \/ first + chunk_size - 1 > db.nrows
                     THEN db.nrows ELSE first + chunk_size - 1
             rows == [i \in 1..(last - first + 1) |-> first + i - 1]
         IN  <<RecArray(colnames,
                        [n \in Range(colnames) |-> TakeRows(db.table[n], rows)],
                        last - first + 1)>>
             \o Chunks(db, colnames, chunk_size, last + 1)

query_columns(db, colnames, chunk_size) == Chunks(db, colnames, chunk_size, 1)

(***************************************************************************)
(* State.                                                                  *)
(***************************************************************************)
VARIABLES
    classes,    \* the class objects created so far; classes[1] is InstanceCatalog
    registry,   \* InstanceCatalog.registry: catalog_type -> index into classes
    namespace,  \* the module namespace: class name -> index into classes
    raised,     \* the exception the last operation raised, or NoError
    cat,        \* the catalog instance
    run,        \* the write_catalog / iter_catalog / iter_catalog_chunks call in progress
    queries,    \* the calls of db_obj.query_columns made so far
    file,       \* the output file and whether a handle on it is open
    results,    \* what each finished call emitted
    written,    \* the last write_catalog call: the columns it warned about, the
                \* number of templates it built, self._template after each batch,
                \* the order of its requests to the source and its writes
    pair,       \* two rows, each of a source of its own, and the unique
                \* identifiers get_uniqueId's arithmetic gives them
    obs         \* the ObservationMetaData object the client constructed

vars == <<classes, registry, namespace, raised, cat, run, queries, file, results,
          written, pair, obs>>

(***************************************************************************)
(* A catalog instance is a record c of its attributes.  c.cls is the index *)
(* of its class in classes, c.db_obj its data source.  _column_cache is    *)
(* a reference: shared = TRUE when the attribute is bound to the class's   *)
(* _cached_columns dictionary, else d is the instance's own dictionary.    *)
(***************************************************************************)
OwnCache(d) == [shared |-> FALSE, d |-> d]

ClassCache == [shared |-> TRUE, d |-> EmptyDict]

\* InstanceCatalog._set_current_chunk(chunk, column_cache=None); computed
\* counts, per cached getter, the runs of its body on the current chunk, and
\* consulted tells whether db_obj.getObjectTypeId() was called on it
set_current_chunk(c, chunk) ==
    [c EXCEPT !._current_chunk = chunk, !._column_cache = OwnCache(EmptyDict),
              !.computed = EmptyDict, !.consulted = FALSE]

\* InstanceCatalog._set_current_chunk(chunk, column_cache)
set_current_chunk_cache(c, chunk, column_cache) ==
    [c EXCEPT !._current_chunk = chunk, !._column_cache = column_cache]

\* the dictionary self._column_cache is bound to
CacheOf(c) == IF c._column_cache.shared THEN c._cached_columns ELSE c._column_cache.d

\* self._column_cache[key] = value
CachePut(c, key, value) ==
    IF c._column_cache.shared THEN [c EXCEPT !._cached_columns = DictSet(@, key, value)]
    ELSE [c EXCEPT !._column_cache.d = DictSet(@, key, value)]

\* one more run of the body of the cached getter getfunc on the current chunk
Counted(c, getfunc) ==
    [c EXCEPT !.computed = DictSet(@, getfunc,
                                   IF getfunc \in DOMAIN @ THEN @[getfunc] + 1 ELSE 1)]

\* InstanceCatalog.is_compound_column
is_compound_column(cls, column_name) ==
    LET getfunc == GetAttr(column_name)
    IN  /\ getfunc \in DOMAIN cls.getters
        /\ IsCompoundGetter(cls.getters[getfunc])

\* a name iterator that yields a compound name itself, not its sub-columns
ExpandNames_NoExpand(cls, outputs) == outputs

RECURSIVE ExpandNames(_, _)
ExpandNames(cls, outputs) ==
    IF outputs = <<>> THEN <<>>
    ELSE (IF is_compound_column(cls, Head(outputs))
          THEN cls.getters[GetAttr(Head(outputs))].colnames
          ELSE <<Head(outputs)>>) \o ExpandNames(cls, Tail(outputs))

\* InstanceCatalog.iter_column_names, as the list it yields
iter_column_names(c) == ExpandNames(classes[c.cls], c._column_outputs)

(***************************************************************************)
(* column_by_name.  The result carries the instance after the call (the    *)
(* call logs origins and, on a mimic chunk, references), the exception     *)
(* raised, the column returned and the branch that returned it.            *)
(***************************************************************************)
Result(c, err, col, origin) == [cat |-> c, err |-> err, col |-> col, origin |-> origin]

\* a shift by one bit less
ShiftPlus_OneLess(col, nShift, typeId) ==
    Column(col.kind, [i \in DOMAIN col.vals |->
                        Cell(col.vals[i].n * (2 ^ (nShift - 1)) + typeId, col.vals[i].s)])

\* numpy.left_shift(arr, nShift) + typeId
ShiftPlus(col, nShift, typeId) ==
    Column(col.kind, [i \in DOMAIN col.vals |->
                        Cell(col.vals[i].n * (2 ^ nShift) + typeId, col.vals[i].s)])

\* the default value of nShift in get_uniqueId
nShiftDefault == 10

\* the default_<name> method the metaclass builds from (name, value, type)
DefaultColumnOf(default, chunk) ==
    Column(default.kind, [i \in 1..chunk.len |-> default.value])

\* a resolver that, on a record array, asks for a registered default before
\* it looks at the array's own columns
SourceOf_DefaultFirst(c, column_name) ==
    IF GetAttr(column_name) \in DOMAIN classes[c.cls].getters THEN "getter"
    ELSE IF column_name \in DOMAIN classes[c.cls]._compound_column_names THEN "compound"
    ELSE IF c._current_chunk.tag = "none" THEN "error"
    ELSE IF c._current_chunk.tag = "mimic" THEN "chunk"
    ELSE IF DefaultAttr(column_name) \in DOMAIN classes[c.cls].default_attrs THEN "default"
    ELSE IF Contains(c._current_chunk.names, column_name) THEN "chunk"
    ELSE "default"

\* which branch of column_by_name a name takes on the current chunk
SourceOf(c, column_name) ==
    IF GetAttr(column_name) \in DOMAIN classes[c.cls].getters THEN "getter"
    ELSE IF column_name \in DOMAIN classes[c.cls]._compound_column_names THEN "compound"
    ELSE IF c._current_chunk.tag = "none" THEN "error"
    ELSE IF c._current_chunk.tag = "mimic" \/ Contains(c._current_chunk.names, column_name)
    THEN "chunk"
    ELSE "default"

\* the first statement of column_by_name: on a mimic chunk the name joins
\* _actually_calculated_columns
NoteCalculated(c, column_name) ==
    IF c._current_chunk.tag = "mimic" /\ ~Contains(c._actually_calculated_columns, column_name)
    THEN [c EXCEPT !._actually_calculated_columns = Append(@, column_name)]
    ELSE c

\* if self._column_origins_switch: self._column_origins[column_name] = origin
LogOrigin(c, column_name, origin) ==
    IF c._column_origins_switch
    THEN [c EXCEPT !._column_origins = DictSet(@, column_name, origin)]
    ELSE c

\* the class _get_class_that_defined_method finds for the getter getfunc
DefinedIn(c, getfunc) == classes[c.cls].getters[getfunc].defined_in

\* self._current_chunk[column_name]
ChunkItem(c, column_name) ==
    IF c._current_chunk.tag = "mimic"
    THEN Result([c EXCEPT !._current_chunk.referenced_columns = @ \cup {column_name}],
                NoError, EmptyColumn, "chunk")
    ELSE Result(c, NoError, c._current_chunk.cols[column_name], "chunk")

\* getattr(self, "default_%s" % column_name)(): the attribute is missing, or
\* is default_columns or default_formats, which cannot be called
CallDefault(c, column_name) ==
    IF DefaultAttr(column_name) \in DOMAIN classes[c.cls].default_attrs
    THEN Result(c, NoError,
                DefaultColumnOf(classes[c.cls].default_attrs[DefaultAttr(column_name)],
                                c._current_chunk),
                "default")
    ELSE IF column_name \in {"columns", "formats"}
    THEN \* default_columns and default_formats are not callable
         Result(c, Error("TypeError", {column_name}), EmptyColumn, "error")
    ELSE Result(c, Error("UnresolvableColumn", {column_name}), EmptyColumn, "error")

RECURSIVE column_by_name(_, _)
RECURSIVE CallGetter(_, _)
RECURSIVE CompoundBody(_, _)
RECURSIVE Cached(_, _)
RECURSIVE ResolveEach(_, _)

\* the branches of column_by_name, c being the instance after its first
\* statement and source the branch taken
Resolve(c, column_name, source) ==
    CASE source = "getter" ->
           With(CallGetter(LogOrigin(c, column_name, DefinedIn(c, GetAttr(column_name))),
                           GetAttr(column_name)),
                LAMBDA r : Result(r.cat, r.err, r.col, "getter"))
      [] source = "compound" ->
           With(CallGetter(IF column_name # ""
                           THEN LogOrigin(c, column_name,
                                          DefinedIn(c, classes[c.cls]._compound_column_names[
                                                         column_name]))
                           ELSE c,
                           classes[c.cls]._compound_column_names[column_name]),
                LAMBDA r :
                  IF r.err # NoError THEN Result(r.cat, r.err, EmptyColumn, "compound")
                  ELSE Result(r.cat, NoError, r.compound[column_name], "compound"))
      [] source = "error" ->
           \* None has no dtype
           Result(c, Error("UnresolvableColumn", {column_name}), EmptyColumn, "error")
      [] source = "chunk" ->
           ChunkItem(LogOrigin(c, column_name, "the database"), column_name)
      [] OTHER ->
           CallDefault(LogOrigin(c, column_name, "default column"), column_name)

\* InstanceCatalog.column_by_name
column_by_name(c, column_name) ==
    With(NoteCalculated(c, column_name),
         LAMBDA c1 : Resolve(c1, column_name, SourceOf(c1, column_name)))

\* for each name of names in order: column_by_name(name); stops at the first
\* exception
ResolveEach(c, names) ==
    IF names = <<>> THEN [cat |-> c, err |-> NoError, cols |-> <<>>]
    ELSE With(column_by_name(c, Head(names)), LAMBDA r :
           IF r.err # NoError THEN [cat |-> r.cat, err |-> r.err, cols |-> <<>>]
           ELSE With(ResolveEach(r.cat, Tail(names)), LAMBDA rest :
                  [cat |-> rest.cat, err |-> rest.err,
                   cols |-> IF rest.err # NoError THEN <<>> ELSE <<r.col>> \o rest.cols]))

\* what a getter returns: the instance after the call, the exception, the
\* column and, for a compound getter, its columns by name
Returned(r, col, compound) ==
    [cat |-> r.cat, err |-> r.err, col |-> col, compound |-> compound]

\* the first of the columns a getter asked for
FirstOf(r) == IF r.err = NoError /\ r.cols # <<>> THEN r.cols[1] ELSE EmptyColumn

\* self.db_obj.getObjectTypeId(): the instance after the call and the id
getObjectTypeId(c) ==
    [cat |-> [c EXCEPT !.consulted = TRUE], id |-> DbObject(c.db_obj).objectTypeId]

\* a getter that shifts only when the batch has more than one row
get_uniqueId_MoreThanOne(c) ==
    With(column_by_name(c, c.refIdCol), LAMBDA arr :
      IF arr.err # NoError THEN Returned(arr, EmptyColumn, EmptyDict)
      ELSE IF Len(arr.col.vals) > 1
      THEN With(column_by_name(arr.cat, c.refIdCol), LAMBDA again :
             IF again.err # NoError THEN Returned(again, EmptyColumn, EmptyDict)
             ELSE Returned([cat |-> getObjectTypeId(again.cat).cat, err |-> NoError],
                           ShiftPlus(again.col, nShiftDefault,
                                     getObjectTypeId(again.cat).id),
                           EmptyDict))
      ELSE Returned(arr, arr.col, EmptyDict))

\* InstanceCatalog.get_uniqueId
get_uniqueId(c) ==
    With(column_by_name(c, c.refIdCol), LAMBDA arr :
      IF arr.err # NoError THEN Returned(arr, EmptyColumn, EmptyDict)
      ELSE IF Len(arr.col.vals) > 0
      THEN With(column_by_name(arr.cat, c.refIdCol), LAMBDA again :
             IF again.err # NoError THEN Returned(again, EmptyColumn, EmptyDict)
             ELSE Returned([cat |-> getObjectTypeId(again.cat).cat, err |-> NoError],
                           ShiftPlus(again.col, nShiftDefault,
                                     getObjectTypeId(again.cat).id),
                           EmptyDict))
      ELSE Returned(arr, arr.col, EmptyDict))

\* InstanceCatalog.get_objId
get_objId(c) ==
    With(column_by_name(c, c.refIdCol), LAMBDA r : Returned(r, r.col, EmptyDict))

\* the body of the compound getter getfunc: its columns by name
CompoundBody(c, getfunc) ==
    With(ResolveEach(c, classes[c.cls].getters[getfunc].deps), LAMBDA r :
      Returned(r, Column("V", FirstOf(r).vals),
               [n \in Range(classes[c.cls].getters[getfunc].colnames) |-> FirstOf(r)]))

\* the getter as the decorator compound leaves it: the result of the body is
\* kept in self._column_cache under the getter's name and, once there, is
\* returned without running the body
Cached(c, getfunc) ==
    IF getfunc \in DOMAIN CacheOf(c)
    THEN Returned([cat |-> c, err |-> NoError],
                  Column("V", CacheOf(c)[getfunc][
                                classes[c.cls].getters[getfunc].colnames[1]].vals),
                  CacheOf(c)[getfunc])
    ELSE With(CompoundBody(c, getfunc), LAMBDA r :
           IF r.err # NoError THEN r
           ELSE Returned([cat |-> CachePut(Counted(r.cat, getfunc), getfunc, r.compound),
                          err |-> NoError],
                         r.col, r.compound))

\* the column with "0" in the place of every none, nan and null
Filled(col) ==
    Column(col.kind,
           [i \in DOMAIN col.vals |->
              IF char_lower(astype_str(col.kind, col.vals[i])) \in {"none", "nan", "null"}
              THEN Cell(0, "0") ELSE col.vals[i]])

\* the body of a getter that fills the gaps of a column of the current chunk
FillBody(c, getfunc) ==
    With(ChunkItem(c, classes[c.cls].getters[getfunc].deps[1]), LAMBDA r :
      Returned(r, Filled(r.col), EmptyDict))

\* the call function(*args, **kwargs) of the getter bound to attribute getfunc
CallGetter(c, getfunc) ==
    CASE classes[c.cls].getters[getfunc].kind = "objId" -> get_objId(c)
      [] classes[c.cls].getters[getfunc].kind = "uniqueId" -> get_uniqueId(c)
      [] classes[c.cls].getters[getfunc].kind = "compound" -> Cached(c, getfunc)
      [] classes[c.cls].getters[getfunc].kind = "fill" -> FillBody(c, getfunc)
      [] OTHER ->
           With(ResolveEach(c, classes[c.cls].getters[getfunc].deps), LAMBDA r :
             Returned(r, FirstOf(r), EmptyDict))

(***************************************************************************)
(* Requirement analysis and construction.                                  *)
(***************************************************************************)
\* list(a_set), dict.keys(): Python leaves the order open; the model lists
\* column names in this fixed order
NameOrder == <<"a", "b", "c", "columns", "d", "formats", "id", "objId", "p", "pq", "q",
               "qc", "uniqueId", "zz">>

SetToList(names) == SeqFilter(NameOrder, names)

\* the names of self.default_columns
DefaultNames(cls) == {cls.default_columns[i].name : i \in DOMAIN cls.default_columns}

\* InstanceCatalog.db_required_columns: the instance after the call, the
\* exception raised and the two lists returned
db_required_columns(c) ==
    With(set_current_chunk(c, MimicRecordArray), LAMBDA c1 :
      With(ResolveEach(c1, iter_column_names(c1)), LAMBDA r :
        IF r.err # NoError
        THEN [cat |-> r.cat, err |-> r.err, cols |-> <<>>, defaults |-> <<>>]
        ELSE [cat |-> [set_current_chunk_cache(r.cat, c._current_chunk, ClassCache)
                         EXCEPT !.computed = c.computed, !.consulted = c.consulted],
              err |-> NoError,
              cols |-> SetToList(r.cat._current_chunk.referenced_columns),
              defaults |-> SetToList(DefaultNames(classes[c.cls])
                                     \cap r.cat._current_chunk.referenced_columns)]))

\* a requirement check that tags no column as default-sourced
MarkDefaults_None(origins, missing_cols, defaults) == origins

RECURSIVE MarkDefaults(_, _, _)
\* for col in missing_cols: if col in defaults:
\*     self._column_origins[col] = 'default column'
MarkDefaults(origins, missing_cols, defaults) ==
    IF missing_cols = <<>> THEN origins
    ELSE MarkDefaults(IF Contains(defaults, Head(missing_cols))
                      THEN DictSet(origins, Head(missing_cols), "default column")
                      ELSE origins,
                      Tail(missing_cols), defaults)

\* the columns of cols that are not in the source's columnMap
MissingCols(c, cols) == SeqFilter(cols, Range(cols) \ Range(DbObject(c.db_obj).columnMap))

\* a requirement check for which every missing column is fatal
NoDefault_All(missing_cols, defaults) == missing_cols

\* the columns of missing_cols that are not in defaults
NoDefault(missing_cols, defaults) ==
    SeqFilter(missing_cols, Range(missing_cols) \ Range(defaults))

\* a requirement check that leaves self._column_origins_switch as it is
Checked_SwitchLeft(r) ==
    [r.cat EXCEPT
       !._active_columns = SeqFilter(r.cols, Range(DbObject(r.cat.db_obj).columnMap)),
       !._column_origins = MarkDefaults(@, MissingCols(r.cat, r.cols), r.defaults)]

\* the instance _check_requirements leaves, r being what
\* db_required_columns returned
Checked(r) ==
    [r.cat EXCEPT
       !._active_columns = SeqFilter(r.cols, Range(DbObject(r.cat.db_obj).columnMap)),
       !._column_origins_switch = FALSE,
       !._column_origins = MarkDefaults(@, MissingCols(r.cat, r.cols), r.defaults)]

\* InstanceCatalog._check_requirements
check_requirements(c) ==
    With(db_required_columns([c EXCEPT !._active_columns = <<>>]), LAMBDA r :
      IF r.err # NoError THEN [cat |-> r.cat, err |-> r.err]
      ELSE IF Len(NoDefault(MissingCols(r.cat, r.cols), r.defaults)) > 0
      THEN [cat |-> Checked(r),
            err |-> Error("MissingColumns",
                          Range(NoDefault(MissingCols(r.cat, r.cols), r.defaults)))]
      ELSE [cat |-> Checked(r), err |-> NoError])

\* names with their prefix removed, for the names that start with get_ or
\* default_
StripAll(names) == [i \in DOMAIN names |-> StripPrefix(names[i])]

(***************************************************************************)
(* ObservationMetaData.  An object is a record of its attributes, angles   *)
(* in thousandths of a radian; self._site and self._skyBrightness are left *)
(* out.  A bandpass, a magnitude or a bound length is a Scalar or a List.  *)
(***************************************************************************)
\* an attribute that is not None; None is the attribute that is
Just(v) == Some(<<v>>)

\* the value of an attribute that is not None
Val(opt) == opt.v[1]

\* a value that is not list-like
Scalar(v) == [list |-> FALSE, v |-> <<v>>]

\* the value that is not list-like
Only(x) == x.v[1]

\* a list
List(s) == [list |-> TRUE, v |-> s]

\* numpy.radians(deg), in thousandths of a radian
radians(deg) == (deg * 17453) \div 1000

\* SpatialBounds.getSpatialBounds(boundType, ra, dec, boundLength)
getSpatialBounds(boundType, ra, dec, boundLength) ==
    [boundType |-> boundType, RA |-> ra, DEC |-> dec, length |-> boundLength]

\* buildBounds() that asks for no pointing
buildBounds_NoPointingCheck(o) ==
    IF o._boundType.none THEN [obj |-> o, err |-> NoError]
    ELSE IF o._boundLength.none
    THEN [obj |-> o, err |-> Error("InvalidContext", {"boundLength"})]
    ELSE [obj |-> [o EXCEPT !._bounds =
                      Just(getSpatialBounds(Val(o._boundType), o._unrefractedRA.v,
                                            o._unrefractedDec.v, Val(o._boundLength)))],
          err |-> NoError]

\* ObservationMetaData.buildBounds(): the object and the exception
buildBounds(o) ==
    IF o._boundType.none THEN [obj |-> o, err |-> NoError]
    ELSE IF o._boundLength.none
    THEN [obj |-> o, err |-> Error("InvalidContext", {"boundLength"})]
    ELSE IF o._unrefractedRA.none \/ o._unrefractedDec.none
    THEN [obj |-> o, err |-> Error("InvalidContext", {"unrefractedRA", "unrefractedDec"})]
    ELSE [obj |-> [o EXCEPT !._bounds =
                      Just(getSpatialBounds(Val(o._boundType), Val(o._unrefractedRA),
                                            Val(o._unrefractedDec), Val(o._boundLength)))],
          err |-> NoError]

\* metaData[key][0] when metaData is not None and holds key, else old
Overwritten(metaData, key, old) ==
    IF ~metaData.none /\ key \in DOMAIN Val(metaData) THEN Just(Val(metaData)[key]) ELSE old

\* assignPhoSimMetaData(metaData) that leaves the bounds it finds
assignPhoSimMetaData_KeepBounds(o, metaData) ==
    [obj |-> [o EXCEPT !._phoSimMetadata = metaData,
                       !._mjd = Overwritten(metaData, "Opsim_expmjd", @),
                       !._unrefractedRA = Overwritten(metaData, "Unrefracted_RA", @),
                       !._rotSkyPos = Overwritten(metaData, "Opsim_rotskypos", @),
                       !._unrefractedDec = Overwritten(metaData, "Unrefracted_Dec", @),
                       !._bandpass = IF ~metaData.none
                                        /\ "Opsim_filter" \in DOMAIN Val(metaData)
                                     THEN Scalar(Val(metaData)["Opsim_filter"]) ELSE @],
     err |-> NoError]

\* ObservationMetaData.assignPhoSimMetaData(metaData): the object and the
\* exception
assignPhoSimMetaData(o, metaData) ==
    With([o EXCEPT !._phoSimMetadata = metaData,
                   !._mjd = Overwritten(metaData, "Opsim_expmjd", @),
                   !._unrefractedRA = Overwritten(metaData, "Unrefracted_RA", @),
                   !._rotSkyPos = Overwritten(metaData, "Opsim_rotskypos", @),
                   !._unrefractedDec = Overwritten(metaData, "Unrefracted_Dec", @),
                   !._bandpass = IF ~metaData.none /\ "Opsim_filter" \in DOMAIN Val(metaData)
                                 THEN Scalar(Val(metaData)["Opsim_filter"]) ELSE @],
         LAMBDA n : IF n._bounds.none THEN [obj |-> n, err |-> NoError]
                    ELSE buildBounds(n))

\* the m5 part of __init__ without the comparison of the lengths: zip stops
\* at the shorter list
AssignM5_ZipTruncates(o, m5) ==
    IF m5.none THEN [obj |-> o, err |-> NoError]
    ELSE IF o._bandpass.list /\ ~Val(m5).list
    THEN [obj |-> o, err |-> Error("InvalidContext", {"m5"})]
    ELSE IF Val(m5).list /\ ~o._bandpass.list
    THEN [obj |-> o, err |-> Error("InvalidContext", {"bandpassName"})]
    ELSE [obj |-> [o EXCEPT !._m5 =
                      Just([b \in {o._bandpass.v[i] :
                                     i \in DOMAIN o._bandpass.v \cap DOMAIN Val(m5).v} |->
                              Val(m5).v[CHOOSE i \in DOMAIN o._bandpass.v :
                                          o._bandpass.v[i] = b]])],
          err |-> NoError]

\* the part of ObservationMetaData.__init__ that builds self._m5
AssignM5(o, m5) ==
    IF m5.none THEN [obj |-> o, err |-> NoError]
    ELSE IF o._bandpass.list /\ ~Val(m5).list
    THEN [obj |-> o, err |-> Error("InvalidContext", {"m5"})]
    ELSE IF Val(m5).list /\ ~o._bandpass.list
    THEN [obj |-> o, err |-> Error("InvalidContext", {"bandpassName"})]
    ELSE IF Val(m5).list /\ Len(Val(m5).v) # Len(o._bandpass.v)
    THEN [obj |-> o, err |-> Error("InvalidContext", {"m5", "bandpassName"})]
    ELSE IF o._bandpass.list
    THEN [obj |-> [o EXCEPT !._m5 =
                      Just([b \in Range(o._bandpass.v) |->
                              Val(m5).v[CHOOSE i \in DOMAIN o._bandpass.v :
                                       /\ o._bandpass.v[i] = b
                                       /\ \A j \in DOMAIN o._bandpass.v :
                                            o._bandpass.v[j] = b => j <= i]])],
          err |-> NoError]
    ELSE [obj |-> [o EXCEPT !._m5 = Just(DictSet(EmptyDict, Only(o._bandpass), Only(Val(m5))))],
          err |-> NoError]

\* the attributes ObservationMetaData.__init__ sets before it looks at
\* phoSimMetadata
NewObservationMetaData(a) ==
    [_bounds |-> None,
     _boundType |-> a.boundType,
     _mjd |-> a.mjd,
     _bandpass |-> a.bandpassName,
     _rotSkyPos |-> IF a.rotSkyPos.none THEN None ELSE Just(radians(Val(a.rotSkyPos))),
     _unrefractedRA |-> IF a.unrefractedRA.none THEN None
                        ELSE Just(radians(Val(a.unrefractedRA))),
     _unrefractedDec |-> IF a.unrefractedDec.none THEN None
                         ELSE Just(radians(Val(a.unrefractedDec))),
     _boundLength |-> IF a.boundLength.none THEN None
                      ELSE IF Val(a.boundLength).list
                      THEN Just(List([i \in DOMAIN Val(a.boundLength).v |->
                                        radians(Val(a.boundLength).v[i])]))
                      ELSE Just(Scalar(radians(Only(Val(a.boundLength))))),
     _phoSimMetadata |-> None,
     _m5 |-> None]

\* ObservationMetaData(boundType, boundLength, mjd, unrefractedRA,
\* unrefractedDec, rotSkyPos, bandpassName, phoSimMetadata, m5): the object
\* and the exception
ObservationMetaData(a) ==
    With(IF a.phoSimMetadata.none
         THEN [obj |-> NewObservationMetaData(a), err |-> NoError]
         ELSE assignPhoSimMetaData(NewObservationMetaData(a), a.phoSimMetadata),
         LAMBDA p :
           With(IF p.obj._bounds.none THEN buildBounds(p.obj) ELSE p,
                LAMBDA b : IF b.err # NoError THEN b ELSE AssignM5(b.obj, a.m5)))

\* the arguments of ObservationMetaData()
NoArgs ==
    [boundType |-> None, boundLength |-> None, mjd |-> None, unrefractedRA |-> None,
     unrefractedDec |-> None, rotSkyPos |-> Just(0), bandpassName |-> Scalar("r"),
     phoSimMetadata |-> None, m5 |-> None]

\* the properties of ObservationMetaData: each has a getter and no setter
Properties ==
    {"unrefractedRA", "unrefractedDec", "boundLength", "boundType", "bounds", "rotSkyPos",
     "m5", "site", "mjd", "bandpass", "skyBrightness", "phoSimMetadata"}

\* `o.<name> = value` when the properties are plain attributes
setattr_PlainAttribute(o, name, value) ==
    [obj |-> [n \in DOMAIN o \cup {name} |-> IF n = name THEN value ELSE o[n]],
     err |-> NoError]

\* `o.<name> = value` on an ObservationMetaData o: the object and the
\* exception
setattr(o, name, value) ==
    IF name \in Properties
    THEN [obj |-> o, err |-> Error("ReadOnlyAttribute", {name})]
    ELSE [obj |-> [n \in DOMAIN o \cup {name} |-> IF n = name THEN value ELSE o[n]],
          err |-> NoError]

\* the caller's ObservationMetaData object, as a reference
CallerObject == [ref |-> "caller"]

\* the object a reference leads to: the caller's object, whose attributes
\* are heap, or an object of the holder's own
ObsAt(heap, ref) == IF "ref" \in DOMAIN ref THEN heap ELSE ref

\* copy.deepcopy(obs_metadata) keeps the caller's object
deepcopy_SameObject(o) == CallerObject

\* copy.deepcopy(obs_metadata): a new object with copies of the attributes
deepcopy(o) == o

\* the observation context of ObservationMetaData()
DefaultObs == ObservationMetaData(NoArgs).obj

\* self._all_available_columns as __init__ builds it
AllAvailableColumns(cls, db_obj) ==
    AppendNew(
      AppendNew(
        AppendNew(
          AppendNew(<<>>, DbObject(db_obj).columnMap),
          SetToList(DOMAIN cls._compound_column_names)),
        Dir(DOMAIN cls._compound_columns)),
      StripAll(Dir(DOMAIN cls.getters \cup DOMAIN cls.default_attrs
                   \cup {"default_columns", "default_formats"})))

\* self._column_outputs as __init__ sets it; column_outputs is the argument
ColumnOutputs(cls, column_outputs, available) ==
    IF ~cls.column_outputs.none
    THEN IF column_outputs.none THEN cls.column_outputs.v
         ELSE AppendNew(cls.column_outputs.v, column_outputs.v)
    ELSE IF ~column_outputs.none THEN column_outputs.v
    ELSE SeqFilter(available, Range(available) \ DOMAIN cls._compound_columns)

\* the instance __init__ has set up when it calls _check_requirements
NewInstance(id, db_obj, obs_metadata, column_outputs, constraint, available) ==
    [state |-> "ready",
     cls |-> id,
     db_obj |-> db_obj,
     verbose |-> DbObject(db_obj).verbose,
     _current_chunk |-> NoChunk,
     _column_origins |-> EmptyDict,
     obs_metadata |-> IF obs_metadata.none THEN DefaultObs ELSE deepcopy(obs_metadata.v),
     _column_outputs |-> ColumnOutputs(classes[id], column_outputs, available),
     _actually_calculated_columns |-> <<>>,
     constraint |-> constraint,
     refIdCol |-> DbObject(db_obj).idColKey,
     _column_cache |-> OwnCache(EmptyDict),
     _column_origins_switch |-> TRUE,
     _all_available_columns |-> available,
     _active_columns |-> <<>>,
     _template |-> None,
     _cached_columns |-> classes[id]._cached_columns,
     computed |-> EmptyDict,
     consulted |-> FALSE]

\* InstanceCatalog.__init__(db_obj, obs_metadata, column_outputs, constraint)
\* on a new instance of classes[id]; an instance whose __init__ raised is
\* kept with state "failed"
init(id, db_obj, obs_metadata, column_outputs, constraint) ==
    With(check_requirements(NewInstance(id, db_obj, obs_metadata, column_outputs, constraint,
                                        AllAvailableColumns(classes[id], db_obj))),
         LAMBDA r :
           [cat |-> IF r.err = NoError THEN r.cat ELSE [r.cat EXCEPT !.state = "failed"],
            err |-> r.err])

\* no instance has been constructed
NoCat ==
    [state |-> "none", cls |-> 1, db_obj |-> "dbA", verbose |-> FALSE,
     _current_chunk |-> NoChunk, _column_origins |-> EmptyDict,
     obs_metadata |-> DefaultObs, _column_outputs |-> <<>>,
     _actually_calculated_columns |-> <<>>, constraint |-> "",
     refIdCol |-> "", _column_cache |-> OwnCache(EmptyDict),
     _column_origins_switch |-> TRUE, _all_available_columns |-> <<>>,
     _active_columns |-> <<>>, _template |-> None,
     _cached_columns |-> EmptyDict, computed |-> EmptyDict, consulted |-> FALSE]

\* the constructor arguments the model passes besides db_obj
CtorArgs ==
    {[column_outputs |-> None, obs_metadata |-> None, constraint |-> ""],
     [column_outputs |-> Some(<<"d", "a">>),
      obs_metadata |-> Some(obs), constraint |-> "a > 1"],
     [column_outputs |-> Some(<<"pq", "uniqueId", "p">>),
      obs_metadata |-> None, constraint |-> "b < 2"]}

(***************************************************************************)
(* The materializer: filtering, resolving, formatting.                     *)
(***************************************************************************)
\* the dictionary of the transformation "code"
Codes == [r |-> 1, s |-> 2]

\* a column transformation; the model's catalog types use two: "double",
\* lambda x: 2 * x, and "code", lambda x: numpy.array([Codes[v] for v in x])
Transform(f, col) ==
    IF f = "code"
    THEN Column("i", [i \in DOMAIN col.vals |->
                        Cell(IF col.vals[i].s \in DOMAIN Codes THEN Codes[col.vals[i].s] ELSE 0,
                             "")])
    ELSE Column(col.kind, [i \in DOMAIN col.vals |-> Cell(col.vals[i].n * 2, col.vals[i].s)])

\* the transformation f raises on col: "code" on a value it has no code for
TransformRaises(f, col) ==
    f = "code" /\ \E i \in DOMAIN col.vals : col.vals[i].s \notin DOMAIN Codes

\* a filter that lets 'nan' pass
NotNull_NoNan(str) == str # "none" /\ str # "null"

\* str_vec != 'none' and str_vec != 'nan' and str_vec != 'null'
NotNull(str) == str # "none" /\ str # "nan" /\ str # "null"

\* numpy.char.lower(col.astype('str'))
LowerStr(col) == [i \in DOMAIN col.vals |-> char_lower(astype_str(col.kind, col.vals[i]))]

\* numpy.where(...)[0]: the indices of the rows that pass, in order
WhereFrom(strs) ==
    SeqFilter([i \in DOMAIN strs |-> i], {i \in DOMAIN strs : NotNull(strs[i])})

good_dexes_of(col) == WhereFrom(LowerStr(col))

RECURSIVE PreScreen(_, _)
\* if self._pre_screen: for col_name in self.cannot_be_null: ...
PreScreen(chunk, cannot_be_null) ==
    IF cannot_be_null = <<>> THEN chunk
    ELSE PreScreen(IF Contains(chunk.names, Head(cannot_be_null))
                   THEN TakeChunkRows(chunk, good_dexes_of(chunk.cols[Head(cannot_be_null)]))
                   ELSE chunk,
                   Tail(cannot_be_null))

\* new_cache: the cached columns restricted to good_dexes
CacheDict(cache, good_dexes) ==
    OwnCache([n \in DOMAIN cache.d |-> TakeRows(cache.d[n], good_dexes)])

\* if len(good_dexes[0]) < len(chunk): chunk = chunk[good_dexes]; ...
Filtered(c, good_dexes) ==
    IF Len(good_dexes) < c._current_chunk.len
    THEN set_current_chunk_cache(c, TakeChunkRows(c._current_chunk, good_dexes),
                                 CacheDict(c._column_cache, good_dexes))
    ELSE c

RECURSIVE FilterNulls(_, _)
\* for filter_col in self.cannot_be_null: try ... except: continue
FilterNulls(c, names) ==
    IF names = <<>> THEN c
    ELSE With(column_by_name(c, Head(names)), LAMBDA r :
           IF r.err # NoError THEN FilterNulls(r.cat, Tail(names))
           ELSE FilterNulls(Filtered(r.cat, good_dexes_of(r.col)), Tail(names)))

\* self.transformations[col](column) if col in self.transformations.keys()
\* else column
Transformed(cls, col, column) ==
    IF col \in DOMAIN cls.transformations THEN Transform(cls.transformations[col], column)
    ELSE column

RECURSIVE ChunkCols(_, _)
\* chunk_cols = [... for col in self.iter_column_names()], names being the
\* names still to resolve
ChunkCols(c, names) ==
    IF names = <<>> THEN [cat |-> c, err |-> NoError, cols |-> <<>>]
    ELSE With(column_by_name(c, Head(names)), LAMBDA r :
           IF r.err # NoError THEN [cat |-> r.cat, err |-> r.err, cols |-> <<>>]
           ELSE IF /\ Head(names) \in DOMAIN classes[c.cls].transformations
                   /\ TransformRaises(classes[c.cls].transformations[Head(names)], r.col)
           THEN [cat |-> r.cat, err |-> Error("TransformError", {Head(names)}),
                 cols |-> <<>>]
           ELSE With(ChunkCols(r.cat, Tail(names)), LAMBDA rest :
                  [cat |-> rest.cat, err |-> rest.err,
                   cols |-> IF rest.err # NoError THEN <<>>
                            ELSE <<Transformed(classes[c.cls], Head(names), r.col)>>
                                 \o rest.cols]))

Min(a, b) == IF a < b THEN a ELSE b

RECURSIVE ShortestLen(_)
ShortestLen(cols) ==
    IF Len(cols) = 1 THEN Len(cols[1].vals)
    ELSE Min(Len(cols[1].vals), ShortestLen(Tail(cols)))

\* zip(*chunk_cols): one tuple per row, as long as the shortest column
ZipCols(cols) ==
    IF cols = <<>> THEN <<>>
    ELSE [i \in 1..ShortestLen(cols) |-> [j \in DOMAIN cols |-> cols[j].vals[i]]]

RECURSIVE JoinStr(_, _)
\* delimiter.join(strs)
JoinStr(strs, delimiter) ==
    IF strs = <<>> THEN ""
    ELSE IF Len(strs) = 1 THEN strs[1]
    ELSE strs[1] \o delimiter \o JoinStr(Tail(strs), delimiter)

\* the format of one column: override_formats, else default_formats by
\* dtype kind, else "%s"
TemplOf(cls, col, kind) ==
    IF col \in DOMAIN cls.override_formats THEN cls.override_formats[col]
    ELSE IF kind \in DOMAIN cls.default_formats THEN cls.default_formats[kind]
    ELSE "%s"

\* InstanceCatalog._make_line_template: the template string, kept as its
\* per-column formats, the delimiter between them and the line end
make_line_template(c, chunk_cols) ==
    [formats |-> [i \in DOMAIN iter_column_names(c) |->
                    TemplOf(classes[c.cls], iter_column_names(c)[i], chunk_cols[i].kind)],
     delimiter |-> classes[c.cls].delimiter,
     endline |-> classes[c.cls].endline]

\* fmt % value raises TypeError (FormatError here): a number format applied to a value that is
\* not a number
FormatRaises(fmt, kind) == fmt \in {"%i", "%.4f"} /\ kind \notin {"i", "f"}

\* the output columns whose format falls back to "%s": no override format
\* and no default format for the dtype kind
RawColumns(c, chunk_cols) ==
    {iter_column_names(c)[i] : i \in
       {i \in DOMAIN iter_column_names(c) :
          /\ iter_column_names(c)[i] \notin DOMAIN classes[c.cls].override_formats
          /\ chunk_cols[i].kind \notin DOMAIN classes[c.cls].default_formats}}

\* the columns _make_line_template warns about: if self.verbose: warnings.warn(...)
Warned(c, chunk_cols) == IF c.verbose THEN RawColumns(c, chunk_cols) ELSE {}

\* fmt % value for one value of a column of dtype kind
FormatCell(fmt, kind, cell) ==
    CASE fmt = "%i" -> IntToStr(cell.n)
      [] fmt = "%.4f" -> IF cell.s = "nan" THEN "nan" ELSE IntToStr(cell.n) \o ".0000"
      [] OTHER -> astype_str(kind, cell)

\* self._template % line
FormatLine(template, kinds, line) ==
    JoinStr([j \in DOMAIN line |-> FormatCell(template.formats[j], kinds[j], line[j])],
            template.delimiter) \o template.endline

\* the dtype kinds of chunk_cols
Kinds(chunk_cols) == [j \in DOMAIN chunk_cols |-> chunk_cols[j].kind]

\* the chunk _write_recarray hands to _set_current_chunk
Screened(c, chunk) ==
    IF classes[c.cls]._pre_screen THEN PreScreen(chunk, classes[c.cls].cannot_be_null)
    ELSE chunk

\* self._template after `if self._template is None: ...`
TemplateFor(c, chunk_cols) ==
    IF c._template.none THEN Some(make_line_template(c, chunk_cols)) ELSE c._template

\* self._template % line raises for the first line of the batch
LineRaises(template, chunk_cols) ==
    /\ ZipCols(chunk_cols) # <<>>
    /\ \E j \in DOMAIN chunk_cols : FormatRaises(template.formats[j], chunk_cols[j].kind)

\* the end of _write_recarray, r being the result of building chunk_cols:
\* the instance, the exception, the tuples and the lines written, the
\* columns warned about and the number of templates built
WriteLines(r) ==
    IF r.err # NoError
    THEN [cat |-> r.cat, err |-> r.err, rows |-> <<>>, lines |-> <<>>, warned |-> {},
          built |-> 0]
    ELSE [cat |-> [r.cat EXCEPT !._template = TemplateFor(r.cat, r.cols)],
          err |-> IF LineRaises(TemplateFor(r.cat, r.cols).v, r.cols)
                  THEN Error("FormatError", {}) ELSE NoError,
          rows |-> IF LineRaises(TemplateFor(r.cat, r.cols).v, r.cols) THEN <<>>
                   ELSE ZipCols(r.cols),
          lines |-> IF LineRaises(TemplateFor(r.cat, r.cols).v, r.cols) THEN <<>>
                    ELSE [i \in DOMAIN ZipCols(r.cols) |->
                            FormatLine(TemplateFor(r.cat, r.cols).v, Kinds(r.cols),
                                       ZipCols(r.cols)[i])],
          warned |-> IF r.cat._template.none THEN Warned(r.cat, r.cols) ELSE {},
          built |-> IF r.cat._template.none THEN 1 ELSE 0]

\* InstanceCatalog._write_recarray(chunk, file_handle): the instance after
\* the call, the exception, the tuples zipped and the lines written
write_recarray(c, chunk) ==
    With(FilterNulls(set_current_chunk(c, Screened(c, chunk)), classes[c.cls].cannot_be_null),
         LAMBDA c1 : WriteLines(ChunkCols(c1, iter_column_names(c1))))

\* InstanceCatalog.write_header: the line written
header_line(c) ==
    classes[c.cls].comment_char
    \o JoinStr(iter_column_names(c), classes[c.cls].delimiter)
    \o classes[c.cls].endline

\* a preparation that keeps the template of the previous call
write_pre_process_KeepTemplate(c) ==
    With(db_required_columns(c), LAMBDA r : [cat |-> r.cat, err |-> r.err])

\* InstanceCatalog._write_pre_process
write_pre_process(c) ==
    With(db_required_columns(c), LAMBDA r :
      [cat |-> [r.cat EXCEPT !._template = None], err |-> r.err])

\* a query that asks for every column the source declares
Query_AllDeclared(c, obs_metadata, constraint, chunk_size) ==
    [colnames |-> DbObject(c.db_obj).columnMap, obs_metadata |-> obs_metadata,
     constraint |-> constraint, chunk_size |-> chunk_size]

\* db_obj.query_columns(colnames=self._active_columns, obs_metadata=...,
\* constraint=..., chunk_size=chunk_size): the call as the source sees it
Query(c, obs_metadata, constraint, chunk_size) ==
    [colnames |-> c._active_columns, obs_metadata |-> obs_metadata,
     constraint |-> constraint, chunk_size |-> chunk_size]

\* the batches the source yields for the query q
QueryResult(c, q) == query_columns(DbObject(c.db_obj), q.colnames, q.chunk_size)

\* a loop that puts the lines of a batch before those of the batches before it
Written_NewestFirst(acc, r) ==
    [rows |-> r.rows \o acc.rows, lines |-> r.lines \o acc.lines,
     warned |-> acc.warned \cup r.warned, built |-> acc.built + r.built,
     templates |-> Append(acc.templates, r.cat._template),
     events |-> acc.events \o <<"next">> \o [i \in DOMAIN r.lines |-> "line"]]

\* what the batches written so far have produced, with one more batch r;
\* events lists, in the order of the call, the header written ("header"),
\* each batch taken from the source ("next") and each line written ("line")
Written(acc, r) ==
    [rows |-> acc.rows \o r.rows, lines |-> acc.lines \o r.lines,
     warned |-> acc.warned \cup r.warned, built |-> acc.built + r.built,
     templates |-> Append(acc.templates, r.cat._template),
     events |-> acc.events \o <<"next">> \o [i \in DOMAIN r.lines |-> "line"]]

RECURSIVE WriteChunks_SkipFailed(_, _, _)
\* a loop over the batches that goes on to the next batch when one raises
WriteChunks_SkipFailed(c, chunks, acc) ==
    IF chunks = <<>> THEN [cat |-> c, err |-> NoError, acc |-> acc]
    ELSE With(write_recarray(c, Head(chunks)), LAMBDA r :
           WriteChunks_SkipFailed(r.cat, Tail(chunks), Written(acc, r)))

RECURSIVE WriteChunks(_, _, _)
\* for chunk in query_result: self._write_recarray(chunk, file_handle)
WriteChunks(c, chunks, acc) ==
    IF chunks = <<>> THEN [cat |-> c, err |-> NoError, acc |-> acc]
    ELSE With(write_recarray(c, Head(chunks)), LAMBDA r :
           IF r.err # NoError
           THEN [cat |-> r.cat, err |-> r.err, acc |-> Written(acc, r)]
           ELSE WriteChunks(r.cat, Tail(chunks), Written(acc, r)))

\* open(filename, write_mode) followed by write_header when asked
Opened(c, f, write_header, write_mode) ==
    (IF write_mode = "w" THEN <<>> ELSE f.lines)
    \o (IF write_header THEN <<header_line(c)>> ELSE <<>>)

\* InstanceCatalog._query_and_write: the instance, the exception, the file
\* (left open when an exception escapes) and the tuples written
query_and_write(c, f, chunk_size, write_header, write_mode, obs_metadata, constraint) ==
    With(WriteChunks(c, QueryResult(c, Query(c, obs_metadata, constraint, chunk_size)),
                     [rows |-> <<>>, lines |-> Opened(c, f, write_header, write_mode),
                      warned |-> {}, built |-> 0, templates |-> <<>>,
                      events |-> IF write_header THEN <<"header">> ELSE <<>>]),
         LAMBDA r :
           [cat |-> r.cat, err |-> r.err, rows |-> r.acc.rows,
            file |-> [lines |-> r.acc.lines, open |-> r.err # NoError],
            queries |-> <<Query(c, obs_metadata, constraint, chunk_size)>>,
            warned |-> r.acc.warned, built |-> r.acc.built,
            templates |-> r.acc.templates, events |-> r.acc.events])

\* InstanceCatalog.write_catalog(filename, chunk_size, write_header, write_mode)
write_catalog(c, f, chunk_size, write_header, write_mode) ==
    With(write_pre_process(c), LAMBDA p :
      IF p.err # NoError
      THEN [cat |-> p.cat, err |-> p.err, rows |-> <<>>, file |-> f, queries |-> <<>>,
            warned |-> {}, built |-> 0, templates |-> <<>>, events |-> <<>>]
      ELSE query_and_write(p.cat, f, chunk_size, write_header, write_mode,
                           ObsAt(obs, p.cat.obs_metadata), p.cat.constraint))

\* one pass of the loop `for chunk in query_result` in iter_catalog and in
\* iter_catalog_chunks: the instance, the exception, chunk_cols and
\* chunkColMap
iter_chunk(c, chunk) ==
    With(ChunkCols(set_current_chunk(c, chunk), iter_column_names(c)), LAMBDA r :
      [cat |-> r.cat, err |-> r.err, cols |-> r.cols,
       chunkColMap |-> [n \in Range(iter_column_names(c)) |->
                          (CHOOSE i \in DOMAIN iter_column_names(c) :
                             /\ iter_column_names(c)[i] = n
                             /\ \A j \in DOMAIN iter_column_names(c) :
                                  iter_column_names(c)[j] = n => j <= i) - 1]])

\* the body of the generator of iter_catalog / iter_catalog_chunks up to the
\* query: the instance, the exception and the query made
iter_start(c, chunk_size) ==
    With(db_required_columns(c), LAMBDA r :
      [cat |-> r.cat, err |-> r.err,
       query |-> Query(r.cat, ObsAt(obs, r.cat.obs_metadata), r.cat.constraint,
                       chunk_size)])

(***************************************************************************)
(* The state machine.  A client defines classes, constructs one catalog    *)
(* and calls its public methods; a generator returned by iter_catalog or   *)
(* iter_catalog_chunks advances one batch per step.                        *)
(***************************************************************************)
\* no generator is active
NoRun == [mode |-> "none", chunk_size |-> 0, started |-> FALSE, pending |-> <<>>,
          rows |-> <<>>]

\* the unique identifier of one row: numpy.left_shift(id, nShift) + typeId
UniqueIdOf(row, nShift) == ShiftPlus(IntCol(<<row.id>>), nShift, row.typeId).vals[1].n

\* a row of a source: its identifier and the source's object-type id
Row(id, typeId) == [id |-> id, typeId |-> typeId]

\* no rows are under study
NoPair == [a |-> Row(0, 0), b |-> Row(0, 0), nShift |-> nShiftDefault,
           done |-> TRUE, ua |-> 0, ub |-> 0]

\* write_catalog has not been called
NoWrite == [warned |-> {}, built |-> 0, templates |-> <<>>, events |-> <<>>]

\* the arguments the model passes to write_catalog; chunk_size 0 stands for
\* None
WriteArgs == {[chunk_size |-> 0, write_header |-> TRUE, write_mode |-> "w"],
              [chunk_size |-> 2, write_header |-> FALSE, write_mode |-> "a"]}

\* the chunk_size arguments the model passes to iter_catalog and
\* iter_catalog_chunks; 0 stands for None
ChunkSizes == {0, 2}

\* the arguments of the ObservationMetaData the client constructs
ObsArgs5000 == [NoArgs EXCEPT !.mjd = Just(5000), !.bandpassName = Scalar("g")]

Init ==
    /\ classes = <<RootClass>>
    /\ registry = DictSet(EmptyDict, RootClass.catalog_type, 1)
    /\ namespace = DictSet(EmptyDict, RootName, 1)
    /\ raised = NoError
    /\ cat = NoCat
    /\ run = NoRun
    /\ queries = <<>>
    /\ file = [lines |-> <<>>, open |-> FALSE]
    /\ results = <<>>
    /\ written = NoWrite
    /\ pair = NoPair
    /\ obs = ObservationMetaData(ObsArgs5000).obj

\* the class statement `class <name>(<base>): <body>`
DefineClass(body) ==
    /\ cat.state = "none"
    /\ Len(classes) <= MaxClasses
    /\ body.base \in DOMAIN namespace
    /\ \E r \in {MetaInit(MetaNew(body, classes[namespace[body.base]]),
                          Len(classes) + 1, registry)} :
         /\ raised' = r.err
         /\ registry' = r.reg
         /\ classes' = IF r.err.exc = "DuplicateCatalogType" THEN classes
                       ELSE Append(classes, r.cls)
         /\ namespace' = IF r.err = NoError
                         THEN DictSet(namespace, r.cls.name, Len(classes) + 1)
                         ELSE namespace
    /\ UNCHANGED <<cat, run, queries, file, results, written, pair, obs>>

\* InstanceCatalog.new_catalog(catalog_type, db_obj, obs_metadata=...,
\* column_outputs=..., constraint=...); the client asks for derived types
NewCatalog(catalog_type, db_obj, args) ==
    /\ cat.state = "none"
    /\ catalog_type \in DOMAIN registry
    /\ \E r \in {init(registry[catalog_type], db_obj, args.obs_metadata,
                      args.column_outputs, args.constraint)} :
         /\ cat' = r.cat
         /\ raised' = r.err
    /\ UNCHANGED <<classes, registry, namespace, run, queries, file, results, written, pair, obs>>

\* the client may start another emission
CanCall ==
    /\ cat.state = "ready"
    /\ run.mode = "none"
    /\ Len(results) < MaxCalls

\* what a finished emission leaves in results
Finished(mode, chunk_size, rows, err) ==
    [mode |-> mode, chunk_size |-> chunk_size, rows |-> rows, err |-> err]

\* cat.write_catalog(filename, chunk_size, write_header, write_mode)
WriteCatalog(args) ==
    /\ CanCall
    /\ \E r \in {write_catalog(cat, file, args.chunk_size, args.write_header,
                               args.write_mode)} :
         /\ cat' = r.cat
         /\ raised' = r.err
         /\ file' = r.file
         /\ queries' = queries \o r.queries
         /\ results' = Append(results, Finished("write", args.chunk_size, r.rows, r.err))
         /\ written' = [warned |-> r.warned, built |-> r.built, templates |-> r.templates,
                         events |-> r.events]
    /\ UNCHANGED <<classes, registry, namespace, run, pair, obs>>

\* cat.iter_catalog(chunk_size) or cat.iter_catalog_chunks(chunk_size): the
\* generator is created, its body has not started
IterCatalog(mode, chunk_size) ==
    /\ CanCall
    /\ run' = [NoRun EXCEPT !.mode = mode, !.chunk_size = chunk_size]
    /\ raised' = NoError
    /\ UNCHANGED <<classes, registry, namespace, cat, queries, file, results, written, pair, obs>>

\* the generator, not started yet, runs up to the end of its first batch
IterFirst ==
    /\ run.mode # "none"
    /\ ~run.started
    /\ \E s \in {iter_start(cat, run.chunk_size)} :
         /\ s.err = NoError
         /\ QueryResult(s.cat, s.query) # <<>>
         /\ queries' = Append(queries, s.query)
         /\ \E r \in {iter_chunk(s.cat, Head(QueryResult(s.cat, s.query)))} :
              /\ cat' = r.cat
              /\ raised' = r.err
              /\ run' = IF r.err # NoError THEN NoRun
                        ELSE [run EXCEPT !.started = TRUE,
                                         !.pending = Tail(QueryResult(s.cat, s.query)),
                                         !.rows = ZipCols(r.cols)]
    /\ UNCHANGED <<classes, registry, namespace, file, results, written, pair, obs>>

\* the generator runs from the end of one batch to the end of the next
IterNext ==
    /\ run.mode # "none"
    /\ run.started
    /\ run.pending # <<>>
    /\ \E r \in {iter_chunk(cat, Head(run.pending))} :
         /\ cat' = r.cat
         /\ raised' = r.err
         /\ run' = IF r.err # NoError THEN NoRun
                   ELSE [run EXCEPT !.pending = Tail(@), !.rows = @ \o ZipCols(r.cols)]
    /\ UNCHANGED <<classes, registry, namespace, queries, file, results, written, pair, obs>>

\* the generator finds query_result exhausted and stops
IterStop ==
    /\ run.mode # "none"
    /\ run.started
    /\ run.pending = <<>>
    /\ results' = Append(results, Finished(run.mode, run.chunk_size, run.rows, NoError))
    /\ run' = NoRun
    /\ raised' = NoError
    /\ UNCHANGED <<classes, registry, namespace, cat, queries, file, written, pair, obs>>

\* cat.db_required_columns()
DbRequiredColumns ==
    /\ cat.state = "ready"
    /\ \E r \in {db_required_columns(cat)} :
         /\ cat' = r.cat
         /\ raised' = r.err
    /\ UNCHANGED <<classes, registry, namespace, run, queries, file, results, written, pair, obs>>

\* the column names the client passes to column_by_name
ResolveNames == {"p", "q", "uniqueId"}

\* cat.column_by_name(column_name), called by the client, also from inside
\* its loop over a generator
ColumnByName(column_name) ==
    /\ cat.state = "ready"
    /\ \E r \in {column_by_name(cat, column_name)} :
         /\ cat' = r.cat
         /\ raised' = r.err
    /\ UNCHANGED <<classes, registry, namespace, run, queries, file, results, written, pair, obs>>

Next ==
    \/ \E body \in ClassBodies : DefineClass(body)
    \/ \E catalog_type \in DOMAIN registry \ {RootClass.catalog_type},
          db_obj \in DbObjects, args \in CtorArgs :
         NewCatalog(catalog_type, db_obj, args)
    \/ \E args \in WriteArgs : WriteCatalog(args)
    \/ \E mode \in {"iter_catalog", "iter_catalog_chunks"}, chunk_size \in ChunkSizes :
         IterCatalog(mode, chunk_size)
    \/ IterFirst
    \/ IterNext
    \/ IterStop
    \/ DbRequiredColumns
    \/ \E column_name \in ResolveNames : ColumnByName(column_name)

Spec == Init /\ [][Next]_vars

\* the client defines CodeCat and FillCat only and never iterates over a
\* catalog
NextCode ==
    \/ \E body \in {CodeCatBody, FillCatBody} : DefineClass(body)
    \/ \E catalog_type \in DOMAIN registry \ {RootClass.catalog_type},
          db_obj \in DbObjects, args \in CtorArgs :
         NewCatalog(catalog_type, db_obj, args)
    \/ \E args \in WriteArgs : WriteCatalog(args)
    \/ DbRequiredColumns
    \/ \E column_name \in ResolveNames : ColumnByName(column_name)

SpecCode == Init /\ [][NextCode]_vars

(***************************************************************************)
(* Two instances of one catalog type.  The client constructs a second      *)
(* instance of the type of cat and goes on with it; cat then stands for    *)
(* the second instance.  _cached_columns is an attribute of the class, so  *)
(* the second instance finds the dictionary as the first one left it.      *)
(***************************************************************************)
\* InstanceCatalog.__init__ on another instance of the class of c
init_again(c, db_obj, obs_metadata, column_outputs, constraint) ==
    With(check_requirements(
           [NewInstance(c.cls, db_obj, obs_metadata, column_outputs, constraint,
                        AllAvailableColumns(classes[c.cls], db_obj))
              EXCEPT !._cached_columns = c._cached_columns]),
         LAMBDA r :
           [cat |-> IF r.err = NoError THEN r.cat ELSE [r.cat EXCEPT !.state = "failed"],
            err |-> r.err])

\* cat2 = type(cat)(db_obj, obs_metadata, column_outputs, constraint)
SecondCatalog(db_obj, args) ==
    /\ cat.state = "ready"
    /\ run.mode = "none"
    /\ \E r \in {init_again(cat, db_obj, args.obs_metadata, args.column_outputs,
                            args.constraint)} :
         /\ cat' = r.cat
         /\ raised' = r.err
    /\ UNCHANGED <<classes, registry, namespace, run, queries, file, results, written, pair, obs>>

\* the client defines GalCat2, a type with a compound getter among its
\* outputs, and constructs instances of it
NextTwo ==
    \/ \E body \in {GalCatBody, GalCat2Body} : DefineClass(body)
    \/ \E db_obj \in DbObjects, args \in CtorArgs :
         NewCatalog("gal_cat2", db_obj, args)
    \/ \E db_obj \in DbObjects, args \in CtorArgs : SecondCatalog(db_obj, args)
    \/ \E args \in WriteArgs : WriteCatalog(args)
    \/ DbRequiredColumns
    \/ \E column_name \in ResolveNames : ColumnByName(column_name)

SpecTwo == Init /\ [][NextTwo]_vars

(***************************************************************************)
(* get_uniqueId's arithmetic on two rows of sources of any object type.    *)
(***************************************************************************)
\* the source identifiers run from 0 to MaxId
MaxId == 2

\* the object-type ids of the sources: below, at and above 2^nShift, and one
\* below zero
TypeIds == {-1, 0, 2, 3, 1023, 1024, 1027}

\* the values of the argument nShift
Shifts == {2, nShiftDefault}

InitUid ==
    /\ Init!1 /\ Init!2 /\ Init!3 /\ Init!4 /\ Init!5 /\ Init!6 /\ Init!7 /\ Init!8
    /\ Init!9 /\ Init!10 /\ Init!12
    /\ pair \in {[a |-> Row(i, t), b |-> Row(j, u), nShift |-> n, done |-> FALSE,
                  ua |-> 0, ub |-> 0] :
                   i \in 0..MaxId, j \in 0..MaxId, t \in TypeIds, u \in TypeIds,
                   n \in Shifts}

\* get_uniqueId(nShift) computes the unique identifiers of both rows
UniqueIdPair ==
    /\ ~pair.done
    /\ pair' = [pair EXCEPT !.done = TRUE,
                            !.ua = UniqueIdOf(pair.a, pair.nShift),
                            !.ub = UniqueIdOf(pair.b, pair.nShift)]
    /\ UNCHANGED <<classes, registry, namespace, raised, cat, run, queries, file, results,
                   written, obs>>

NextUid == UniqueIdPair

SpecUid == InitUid /\ [][NextUid]_vars

(***************************************************************************)
(* The client's ObservationMetaData object next to a catalog built from it.*)
(***************************************************************************)
\* a bound of 5 degrees around a pointing given in degrees
BoxArgs ==
    [NoArgs EXCEPT !.boundType = Just("box"), !.boundLength = Just(Scalar(5)),
                   !.unrefractedRA = Just(10), !.unrefractedDec = Just(20),
                   !.mjd = Just(5000)]

\* the dictionaries the client passes as PhoSim metadata; each key holds the
\* first element of its (value, dtype) pair
MetaDatas ==
    {None,
     Just([Opsim_expmjd |-> 6000, Opsim_filter |-> "i"]),
     Just([Unrefracted_RA |-> 300, Unrefracted_Dec |-> 400, Opsim_rotskypos |-> 500])}

\* the constructor arguments the client passes to ObservationMetaData
ObsArgs ==
    {NoArgs,
     ObsArgs5000,
     BoxArgs,
     [BoxArgs EXCEPT !.boundLength = None],
     [BoxArgs EXCEPT !.unrefractedDec = None],
     [BoxArgs EXCEPT !.unrefractedRA = None,
                     !.phoSimMetadata = Just([Unrefracted_RA |-> 300])],
     [NoArgs EXCEPT !.m5 = Just(Scalar(25))],
     [NoArgs EXCEPT !.bandpassName = List(<<"u", "g">>), !.m5 = Just(List(<<23, 24>>))],
     [NoArgs EXCEPT !.bandpassName = List(<<"u", "g">>), !.m5 = Just(Scalar(25))],
     [NoArgs EXCEPT !.m5 = Just(List(<<23>>))],
     [NoArgs EXCEPT !.bandpassName = List(<<"u", "g">>), !.m5 = Just(List(<<23>>))]}

\* the values the client tries to assign to a property
AttrValues == {12}

InitObs ==
    /\ Init!1 /\ Init!2 /\ Init!3 /\ Init!4 /\ Init!5 /\ Init!6 /\ Init!7 /\ Init!8
    /\ Init!9 /\ Init!10 /\ Init!11
    /\ obs = DefaultObs

\* obs = ObservationMetaData(...): the client constructs the object it will
\* pass to the catalog; an exception leaves the client with the object it had
ObsConstruct(a) ==
    /\ cat.state = "none"
    /\ \E r \in {ObservationMetaData(a)} :
         /\ raised' = r.err
         /\ obs' = IF r.err = NoError THEN r.obj ELSE obs
    /\ UNCHANGED <<classes, registry, namespace, cat, run, queries, file, results, written,
                   pair>>

\* obs.assignPhoSimMetaData(metaData)
ObsAssignPhoSimMetaData(metaData) ==
    /\ \E r \in {assignPhoSimMetaData(obs, metaData)} :
         /\ raised' = r.err
         /\ obs' = r.obj
    /\ UNCHANGED <<classes, registry, namespace, cat, run, queries, file, results, written,
                   pair>>

\* obs.buildBounds()
ObsBuildBounds ==
    /\ \E r \in {buildBounds(obs)} :
         /\ raised' = r.err
         /\ obs' = r.obj
    /\ UNCHANGED <<classes, registry, namespace, cat, run, queries, file, results, written,
                   pair>>

\* obs.<name> = value
ObsSetAttr(name, value) ==
    /\ \E r \in {setattr(obs, name, value)} :
         /\ raised' = r.err
         /\ obs' = r.obj
    /\ UNCHANGED <<classes, registry, namespace, cat, run, queries, file, results, written,
                   pair>>

NextObs ==
    \/ \E a \in ObsArgs : ObsConstruct(a)
    \/ \E metaData \in MetaDatas : ObsAssignPhoSimMetaData(metaData)
    \/ ObsBuildBounds
    \/ \E name \in Properties, value \in AttrValues : ObsSetAttr(name, value)
    \/ DefineClass(StarCatBody)
    \/ \E catalog_type \in DOMAIN registry \ {RootClass.catalog_type},
          db_obj \in DbObjects, args \in CtorArgs :
         NewCatalog(catalog_type, db_obj, args)
    \/ \E args \in WriteArgs : WriteCatalog(args)

SpecObs == InitObs /\ [][NextObs]_vars

(***************************************************************************)
(* The client's ObservationMetaData object by itself.                      *)
(***************************************************************************)
\* two bandpasses with a magnitude each
TwoBands == [NoArgs EXCEPT !.bandpassName = List(<<"u", "g">>), !.m5 = Just(List(<<23, 24>>))]

\* the constructor arguments the client passes to ObservationMetaData when
\* no catalog is built
CtxArgs ==
    ObsArgs \cup
    {[TwoBands EXCEPT !.phoSimMetadata = Just([Opsim_filter |-> "i"])],
     [TwoBands EXCEPT !.m5 = Just(Scalar(25)),
                      !.phoSimMetadata = Just([Opsim_filter |-> "i"])],
     [NoArgs EXCEPT !.bandpassName = List(<<"u", "g", "r">>),
                    !.m5 = Just(List(<<10, 11, 12>>))],
     [NoArgs EXCEPT !.bandpassName = List(<<"u", "g">>)],
     [BoxArgs EXCEPT !.m5 = Just(Scalar(25))],
     [BoxArgs EXCEPT !.boundType = Just("circle"),
                     !.phoSimMetadata = Just([Unrefracted_RA |-> 300,
                                              Unrefracted_Dec |-> 400])],
     [BoxArgs EXCEPT !.unrefractedRA = None, !.unrefractedDec = None,
                     !.phoSimMetadata = Just([Unrefracted_RA |-> 300,
                                              Unrefracted_Dec |-> 400])],
     [BoxArgs EXCEPT !.boundType = None, !.unrefractedRA = None],
     [BoxArgs EXCEPT !.boundLength = Just(List(<<5, 10>>))],
     [BoxArgs EXCEPT !.boundLength = None, !.m5 = Just(List(<<23>>))]}

NextCtx ==
    \/ \E a \in CtxArgs : ObsConstruct(a)
    \/ \E metaData \in MetaDatas : ObsAssignPhoSimMetaData(metaData)
    \/ ObsBuildBounds
    \/ \E name \in Properties, value \in AttrValues : ObsSetAttr(name, value)

SpecCtx == InitObs /\ [][NextCtx]_vars

(***************************************************************************)
(* Properties.                                                             *)
(***************************************************************************)
\* the instance holds a batch of the source
LiveBatch == cat.state = "ready" /\ cat._current_chunk.tag = "recarray"

\* C1: on a live batch column_by_name takes, for every column name, the
\* first source that applies of: the getter named for the column, the
\* compound getter that claims it, the batch's own column, the registered
\* default; it returns that source's values (or raises what the getter
\* raises), and raises when none applies.
C1_ResolutionPriority ==
    LiveBatch =>
      \A n \in Range(NameOrder) :
        With(column_by_name(cat, n), LAMBDA r :
          IF GetAttr(n) \in DOMAIN classes[cat.cls].getters
          THEN /\ r.origin = "getter"
               /\ r.err = CallGetter(cat, GetAttr(n)).err
               /\ r.col = CallGetter(cat, GetAttr(n)).col
          ELSE IF n \in DOMAIN classes[cat.cls]._compound_column_names
          THEN /\ r.origin = "compound"
               /\ r.err = CallGetter(cat, classes[cat.cls]._compound_column_names[n]).err
               /\ r.err = NoError =>
                    r.col = CallGetter(cat, classes[cat.cls]._compound_column_names[n]).compound[n]
          ELSE IF Contains(cat._current_chunk.names, n)
          THEN /\ r.err = NoError
               /\ r.col = cat._current_chunk.cols[n]
          ELSE IF DefaultAttr(n) \in DOMAIN classes[cat.cls].default_attrs
          THEN /\ r.err = NoError
               /\ r.col = Column(classes[cat.cls].default_attrs[DefaultAttr(n)].kind,
                                 [i \in 1..cat._current_chunk.len |->
                                    classes[cat.cls].default_attrs[DefaultAttr(n)].value])
          ELSE r.err # NoError)

\* a written batch is live on a catalog whose type has a getter and a default
\* for c and a default for the batch column a; the row written carries the
\* getter's and the batch's values, and zz has no source at all
C1_Witness ==
    /\ LiveBatch
    /\ {"get_c", "get_a"} \cap DOMAIN classes[cat.cls].getters = {"get_c"}
    /\ {"default_c", "default_a"} \subseteq DOMAIN classes[cat.cls].default_attrs
    /\ Contains(cat._current_chunk.names, "a")
    /\ cat._column_outputs = <<"a", "c", "d">>
    /\ Len(results) = 1
    /\ results[1].mode = "write"
    /\ results[1].rows = <<<<Cell(0, "5"), Cell(0, "x"), Cell(14, "")>>>>
    /\ column_by_name(cat, "c").origin = "getter"
    /\ column_by_name(cat, "a").origin = "chunk"
    /\ column_by_name(cat, "d").origin = "default"
    /\ column_by_name(cat, "zz").err = Error("UnresolvableColumn", {"zz"})

\* the column names the probe pass of the construction of c discovered: the
\* names its provenance log attributes to the batch or to a default
Discovered(c) ==
    {n \in DOMAIN c._column_origins :
       c._column_origins[n] \in {"the database", "default column"}}

\* the discovered names that the source does not declare and that have no
\* declared default
Fatal(c) ==
    {n \in Discovered(c) : /\ ~Contains(DbObject(c.db_obj).columnMap, n)
                           /\ n \notin DefaultNames(classes[c.cls])}

\* C2: construction fails exactly when some discovered column is absent
\* from the source's declared columns and has no declared default, and the
\* MissingColumns error it raises names exactly those columns.
C2_MissingColumns ==
    cat.state # "none" =>
      /\ (cat.state = "failed") <=> (Fatal(cat) # {})
      /\ cat.state = "failed" => raised = Error("MissingColumns", Fatal(cat))

\* a construction failed naming p and pq, and neither the source column a
\* nor the defaulted column d that the probe also discovered
C2_Witness ==
    /\ cat.state = "failed"
    /\ raised = Error("MissingColumns", {"p", "pq"})
    /\ {"a", "d", "p", "pq"} \subseteq Discovered(cat)
    /\ Contains(DbObject(cat.db_obj).columnMap, "a")
    /\ ~Contains(DbObject(cat.db_obj).columnMap, "d")
    /\ "d" \in DefaultNames(classes[cat.cls])

\* the requested output columns of c that have no getter, simple or
\* compound, are absent from the source and have a declared default
Defaulted(c) ==
    {n \in Range(iter_column_names(c)) :
       /\ GetAttr(n) \notin DOMAIN classes[c.cls].getters
       /\ n \notin DOMAIN classes[c.cls]._compound_column_names
       /\ ~Contains(DbObject(c.db_obj).columnMap, n)
       /\ n \in DefaultNames(classes[c.cls])}

\* C3: a requested output column without getter, absent from the source
\* and with a declared default never makes construction fail (a failure
\* names other columns only); its provenance is recorded as default-sourced
\* and it is not in the Active Column Set.
C3_DefaultSatisfies ==
    cat.state # "none" =>
      \A n \in Defaulted(cat) :
        /\ n \in DOMAIN cat._column_origins
        /\ cat._column_origins[n] = "default column"
        /\ ~Contains(cat._active_columns, n)
        /\ cat.state = "failed" =>
             /\ raised.exc = "MissingColumns"
             /\ n \notin raised.names
             /\ raised.names # {}

\* a catalog was constructed on a source without d; d is default-sourced
\* and only a and b are fetched
C3_Witness ==
    /\ cat.state = "ready"
    /\ Defaulted(cat) = {"d"}
    /\ cat._column_origins["d"] = "default column"
    /\ cat._active_columns = <<"a", "b">>

\* C3 as stated: whenever a requested output column has no getter, is
\* absent from the source and has a declared default, construction
\* succeeds, the column is default-sourced and it is not fetched.
C3_AsStated ==
    cat.state # "none" =>
      \A n \in Defaulted(cat) :
        /\ cat.state = "ready"
        /\ n \in DOMAIN cat._column_origins
        /\ cat._column_origins[n] = "default column"
        /\ ~Contains(cat._active_columns, n)

\* the configured output name is the name of a compound getter
NamesCompound(cls, name) ==
    /\ GetAttr(name) \in DOMAIN cls.getters
    /\ cls.getters[GetAttr(name)].kind = "compound"

\* the number of names the configured output name stands for
Width(cls, name) ==
    IF NamesCompound(cls, name) THEN Len(cls.getters[GetAttr(name)].colnames) ELSE 1

RECURSIVE Offset(_, _, _)
\* the number of names the first k configured output names stand for
Offset(cls, outputs, k) ==
    IF k = 0 THEN 0 ELSE Offset(cls, outputs, k - 1) + Width(cls, outputs[k])

\* C4: iter_column_names yields, for the configured output names in their
\* order, the sub-column list of a compound getter in the getter's order in
\* the place of the getter's name, and every other name itself.
C4_OutputNames ==
    cat.state # "none" =>
      /\ Len(iter_column_names(cat))
           = Offset(classes[cat.cls], cat._column_outputs, Len(cat._column_outputs))
      /\ \A i \in DOMAIN cat._column_outputs :
           SubSeq(iter_column_names(cat),
                  Offset(classes[cat.cls], cat._column_outputs, i - 1) + 1,
                  Offset(classes[cat.cls], cat._column_outputs, i))
             = IF NamesCompound(classes[cat.cls], cat._column_outputs[i])
               THEN classes[cat.cls].getters[GetAttr(cat._column_outputs[i])].colnames
               ELSE <<cat._column_outputs[i]>>

\* a catalog configured with a, pq, d, pq being a compound getter of p and
\* q, has written the header of a, p, q, d
C4_Witness ==
    /\ cat.state = "ready"
    /\ cat._column_outputs = <<"a", "pq", "d">>
    /\ classes[cat.cls].getters["get_pq"].colnames = <<"p", "q">>
    /\ iter_column_names(cat) = <<"a", "p", "q", "d">>
    /\ file.lines # <<>>
    /\ file.lines[1] = "#a, p, q, d\n"

\* the output list of cat was defaulted to all available columns
DefaultedOutputs ==
    /\ cat.state = "ready"
    /\ classes[cat.cls].defined
    /\ classes[cat.cls].column_outputs.none
    /\ cat._column_outputs
         = SeqFilter(cat._all_available_columns,
                     Range(cat._all_available_columns)
                       \ DOMAIN classes[cat.cls]._compound_columns)

\* C5, for a catalog whose output list was defaulted to all available
\* columns: iter_column_names lists no column name twice, so none both
\* standalone and as part of a compound expansion.
C5_NoNameTwice ==
    DefaultedOutputs =>
      \A i, j \in DOMAIN iter_column_names(cat) :
        iter_column_names(cat)[i] = iter_column_names(cat)[j] => i = j

\* the batch that holds every row of the source and the columns c fetches
FullBatch(c) == Head(query_columns(DbObject(c.db_obj), c._active_columns, 0))

\* the text the filter looks at: the lower-cased string form of a value
LowerText(col, i) == char_lower(astype_str(col.kind, col.vals[i]))

\* row i of the batch on which c stands passes every designated column that
\* can be looked up
Passes(c, i) ==
    \A f \in Range(classes[c.cls].cannot_be_null) :
      With(column_by_name(c, f), LAMBDA r :
        r.err = NoError => LowerText(r.col, i) \notin {"none", "nan", "null"})

\* the rows of the source that pass, as tuples of the output columns
PassingRows(c, cols) ==
    [k \in DOMAIN SeqFilter([i \in 1..c._current_chunk.len |-> i],
                            {i \in 1..c._current_chunk.len : Passes(c, i)}) |->
       [j \in DOMAIN cols |->
          cols[j].vals[SeqFilter([i \in 1..c._current_chunk.len |-> i],
                                 {i \in 1..c._current_chunk.len : Passes(c, i)})[k]]]]

C7_SameRows ==
    (cat.state = "ready" /\ classes[cat.cls].defined) =>
      \A i, j \in DOMAIN results :
        results[i].chunk_size = results[j].chunk_size => results[i].rows = results[j].rows

\* the class statement of body can run: its base class is defined
CanDefine(body) == body.base \in DOMAIN namespace

\* the class object the statement of body hands to the metaclass's __init__
NewClass(body) == MetaNew(body, classes[namespace[body.base]])

\* C8: no two class objects of the registry have the same catalog_type;
\* every registry entry maps a type name to the class registered under it;
\* registering a class whose catalog_type is registered raises
\* DuplicateCatalogType and leaves the registry as it was.
C8_DuplicateCatalogType ==
    /\ \A i, j \in DOMAIN classes :
         classes[i].catalog_type = classes[j].catalog_type => i = j
    /\ \A t \in DOMAIN registry :
         registry[t] \in DOMAIN classes /\ classes[registry[t]].catalog_type = t
    /\ raised.exc = "DuplicateCatalogType" => raised.names \subseteq DOMAIN registry
    /\ \A body \in ClassBodies :
         (CanDefine(body) /\ NewClass(body).catalog_type \in DOMAIN registry) =>
           With(MetaInit(NewClass(body), Len(classes) + 1, registry), LAMBDA r :
             /\ r.err = Error("DuplicateCatalogType", {NewClass(body).catalog_type})
             /\ r.reg = registry)

\* class starCat was refused because star_cat is the type of StarCat, which
\* the registry still maps it to
C8_Witness ==
    /\ raised = Error("DuplicateCatalogType", {"star_cat"})
    /\ Len(classes) = 2
    /\ classes[2].name = "StarCat"
    /\ registry["star_cat"] = 2
    /\ "starCat" \notin DOMAIN namespace
    /\ cat.state = "none"

\* the attributes of cls that are compound getters
CompoundGetters(cls) == {g \in DOMAIN cls.getters : cls.getters[g].kind = "compound"}

\* two compound getters of cls claim the same sub-column, or a compound
\* getter claims a sub-column that a getter of cls is named for
Collides(cls) ==
    \/ \E g1, g2 \in CompoundGetters(cls) :
         /\ g1 # g2
         /\ Range(cls.getters[g1].colnames) \cap Range(cls.getters[g2].colnames) # {}
    \/ \E g \in CompoundGetters(cls) :
         \E col \in Range(cls.getters[g].colnames) : GetAttr(col) \in DOMAIN cls.getters

\* C9: in a class whose registration succeeded the sub-columns of the
\* compound getters, own and inherited, are pairwise disjoint and none is
\* the name of a getter, and each sub-column maps to the one compound getter
\* that claims it; a class that collides fails with AmbiguousColumn.
C9_CompoundMapping ==
    /\ \A i \in DOMAIN classes :
         /\ classes[i].defined <=> ~Collides(classes[i])
         /\ classes[i].defined =>
              /\ DOMAIN classes[i]._compound_columns = CompoundGetters(classes[i])
              /\ \A g \in CompoundGetters(classes[i]) :
                   /\ classes[i]._compound_columns[g] = classes[i].getters[g].colnames
                   /\ \A col \in Range(classes[i].getters[g].colnames) :
                        /\ col \in DOMAIN classes[i]._compound_column_names
                        /\ classes[i]._compound_column_names[col] = g
              /\ \A col \in DOMAIN classes[i]._compound_column_names :
                   \E g \in CompoundGetters(classes[i]) :
                     col \in Range(classes[i].getters[g].colnames)
    /\ \A body \in ClassBodies :
         (CanDefine(body) /\ NewClass(body).catalog_type \notin DOMAIN registry) =>
           (Collides(NewClass(body))
              <=> MetaInit(NewClass(body), Len(classes) + 1, registry).err.exc
                    = "AmbiguousColumn")

\* GalCat, whose compound getter pq claims p and q, is registered; SCat,
\* which inherits pq and adds a getter for q, was refused
C9_Witness ==
    /\ raised = Error("AmbiguousColumn", {"q"})
    /\ Len(classes) = 3
    /\ classes[2].name = "GalCat"
    /\ classes[2].defined
    /\ classes[2]._compound_column_names = [col \in {"p", "q"} |-> "get_pq"]
    /\ classes[3].name = "SCat"
    /\ ~classes[3].defined
    /\ "SCat" \notin DOMAIN namespace

\* C10: the Active Column Set of a constructed catalog is the discovered
\* names the source declares, no operation changes it or the stored
\* observation metadata and constraint, and every query made asks for
\* exactly these with the batch size of the call that made it.
C10_ActiveColumnSet ==
    /\ [](cat.state = "ready" =>
            /\ Range(cat._active_columns)
                 = {n \in Discovered(cat) : Contains(DbObject(cat.db_obj).columnMap, n)}
            /\ Len(queries) = Len(results) + (IF run.started THEN 1 ELSE 0)
            /\ \A k \in DOMAIN queries :
                 /\ queries[k].colnames = cat._active_columns
                 /\ queries[k].obs_metadata = cat.obs_metadata
                 /\ queries[k].constraint = cat.constraint
                 /\ queries[k].chunk_size = IF k <= Len(results) THEN results[k].chunk_size
                                            ELSE run.chunk_size)
    /\ [][cat.state = "ready" =>
            /\ cat'._active_columns = cat._active_columns
            /\ cat'.obs_metadata = cat.obs_metadata
            /\ cat'.constraint = cat.constraint]_vars

\* two queries with different batch sizes were made for a and b by a catalog
\* that also discovered the defaulted column d, under the observation
\* metadata and the constraint given to its constructor
C10_Witness ==
    /\ cat.state = "ready"
    /\ cat._active_columns = <<"a", "b">>
    /\ "d" \in Discovered(cat)
    /\ cat.constraint = "a > 1"
    /\ cat.obs_metadata = obs
    /\ obs._mjd = Just(5000)
    /\ obs._bandpass = Scalar("g")
    /\ Len(queries) = 2
    /\ Len(results) = 2
    /\ queries[1] = [colnames |-> <<"a", "b">>, obs_metadata |-> cat.obs_metadata,
                     constraint |-> "a > 1", chunk_size |-> 2]
    /\ queries[2].chunk_size = 0
    /\ results[2].mode = "iter_catalog_chunks"

\* the instance db_required_columns leaves when it returns normally
AfterProbe(c) == db_required_columns(c).cat

\* column_by_name(column_name) gives the same outcome on c1 as on c2
SameResolve(c1, c2, column_name) ==
    /\ column_by_name(c1, column_name).err = column_by_name(c2, column_name).err
    /\ column_by_name(c1, column_name).col = column_by_name(c2, column_name).col

\* C11: db_required_columns called twice in a row returns the same fetch
\* names and the same defaultable names both times, and column_by_name on
\* the live batch returns after a probe pass what it returns without one.
C11_ProbeIdempotent ==
    (cat.state = "ready" /\ classes[cat.cls].defined
       /\ db_required_columns(cat).err = NoError) =>
      /\ db_required_columns(AfterProbe(cat)).err = NoError
      /\ db_required_columns(AfterProbe(cat)).cols = db_required_columns(cat).cols
      /\ db_required_columns(AfterProbe(cat)).defaults = db_required_columns(cat).defaults
      /\ LiveBatch =>
           \A n \in Range(iter_column_names(cat)) \cup ResolveNames :
             SameResolve(AfterProbe(cat), cat, n)

\* C12: db_required_columns restores what it found: when it returns, the
\* current batch and the contents of the per-batch column cache are those
\* of before the call, also between the batches of a running iteration.
C12_ProbeRestores ==
    [][(DbRequiredColumns /\ classes[cat.cls].defined /\ raised' = NoError) =>
         /\ cat'._current_chunk = cat._current_chunk
         /\ CacheOf(cat') = CacheOf(cat)]_vars

\* the sub-column column_name as the body of its compound getter computes
\* it on the batch on which c stands
FreshValue(c, column_name) ==
    CompoundBody(c, classes[c.cls]._compound_column_names[column_name]).compound[column_name]

\* the names column_by_name resolves through a compound getter
CompoundNames(c) ==
    {n \in DOMAIN classes[c.cls]._compound_column_names :
       GetAttr(n) \notin DOMAIN classes[c.cls].getters}

\* C13: on one batch the body of a compound getter runs at most once,
\* however many of its sub-columns are resolved and in whatever order, and
\* what column_by_name returns for a sub-column is what the getter computes
\* on the current batch, never what it computed on an earlier one.
C13_OncePerBatch ==
    (LiveBatch /\ classes[cat.cls].defined) =>
      /\ \A g \in DOMAIN cat.computed : cat.computed[g] <= 1
      /\ \A n \in CompoundNames(cat) :
           column_by_name(cat, n).err = NoError
             => column_by_name(cat, n).col = FreshValue(cat, n)

\* C14: the file handle a write_catalog call opens is closed when the call
\* is over, however it ends: after the last batch, and also when resolving,
\* transforming or formatting a batch raises.
C14_HandleClosed ==
    [][(\E args \in WriteArgs : WriteCatalog(args)) => ~file'.open]_vars

\* the output columns of cat, resolved on the whole source
FullCols == ChunkCols(set_current_chunk(cat, FullBatch(cat)), iter_column_names(cat)).cols

\* the output columns of cat that have neither an override format nor a
\* default format for their dtype kind
RawOutputs ==
    {n \in Range(iter_column_names(cat)) :
       /\ n \notin DOMAIN classes[cat.cls].override_formats
       /\ \E i \in DOMAIN iter_column_names(cat) :
            /\ iter_column_names(cat)[i] = n
            /\ FullCols[i].kind \notin DOMAIN classes[cat.cls].default_formats}

\* the format the template built by the last write call has for column n
FormatOf(n) ==
    written.templates[1].v.formats[CHOOSE i \in DOMAIN iter_column_names(cat) :
                                     iter_column_names(cat)[i] = n]

\* C15: whenever the template a write call builds falls back to "%s" for an
\* output column, for want of an override format and of a format for the
\* column's dtype kind, a warning naming the column is issued, whatever
\* self.verbose is, and the template has "%s" for the column.
C15_FallbackFlagged ==
    (cat.state = "ready" /\ written.built > 0) =>
      \A n \in RawOutputs : n \in written.warned /\ FormatOf(n) = "%s"

\* the template the output columns of cat call for: per column the override
\* format, else the default format of the column's dtype kind, else "%s"
ExpectedTemplate ==
    [formats |-> [i \in DOMAIN iter_column_names(cat) |->
                    IF iter_column_names(cat)[i] \in DOMAIN classes[cat.cls].override_formats
                    THEN classes[cat.cls].override_formats[iter_column_names(cat)[i]]
                    ELSE IF FullCols[i].kind \in DOMAIN classes[cat.cls].default_formats
                    THEN classes[cat.cls].default_formats[FullCols[i].kind]
                    ELSE "%s"],
     delimiter |-> classes[cat.cls].delimiter,
     endline |-> classes[cat.cls].endline]

\* C16: a write call that gets to its first batch builds the line template
\* exactly once, from the columns of that batch (override format, else the
\* format of the dtype kind, else "%s"), and every later batch of the call
\* finds that same template; this holds for a second call on the same
\* instance as for the first, so each call starts with the template unset.
C16_TemplateOnce ==
    (cat.state = "ready" /\ written.templates # <<>>) =>
      /\ written.built = 1
      /\ \A i \in DOMAIN written.templates : written.templates[i] = Some(ExpectedTemplate)
      /\ cat._template = Some(ExpectedTemplate)

\* the second write call on an instance took two batches and built one
\* template, three text formats and the override format of d
C16_Witness ==
    /\ cat.state = "ready"
    /\ Len(results) = 2
    /\ results[1].mode = "write" /\ results[2].mode = "write"
    /\ results[2].chunk_size = 2
    /\ results[2].err = NoError
    /\ written.built = 1
    /\ Len(written.templates) = 2
    /\ written.templates[2].v.formats = <<"%s", "%s", "%s", "%i">>

\* the instance holds a batch that has the source's identifier column
IdBatch == LiveBatch /\ Contains(cat._current_chunk.names, cat.refIdCol)

\* the identifier column of the current batch
IdColumn == cat._current_chunk.cols[cat.refIdCol]

\* column_by_name("uniqueId") on the current batch, no call of
\* getObjectTypeId noted yet
UniqueIdNow == column_by_name([cat EXCEPT !.consulted = FALSE], "uniqueId")

\* C17: on a batch with rows the unique identifier of each row is the
\* source identifier shifted left by 10 bits plus the source's object-type
\* id (identifier 42 of a source of type 3 gives 43011); on a batch without
\* rows it is the empty identifier column, nothing is raised and
\* getObjectTypeId is not called.
C17_UniqueId ==
    IdBatch =>
      /\ UniqueIdNow.err = NoError
      /\ Len(UniqueIdNow.col.vals) = cat._current_chunk.len
      /\ \A i \in DOMAIN IdColumn.vals :
           /\ UniqueIdNow.col.vals[i].n
                = IdColumn.vals[i].n * (2 ^ 10) + DbObject(cat.db_obj).objectTypeId
           /\ IdColumn.vals[i].n = 42 /\ DbObject(cat.db_obj).objectTypeId = 3
                => UniqueIdNow.col.vals[i].n = 43011
      /\ cat._current_chunk.len > 0 => UniqueIdNow.cat.consulted
      /\ cat._current_chunk.len = 0 =>
           UniqueIdNow.col = IdColumn /\ ~UniqueIdNow.cat.consulted

\* a batch with identifiers 41 and 42 of a source of type 3 gave 41987 and
\* 43011
C17_Witness ==
    /\ IdBatch
    /\ cat.db_obj = "dbA"
    /\ [i \in DOMAIN IdColumn.vals |-> IdColumn.vals[i].n] = <<41, 42>>
    /\ [i \in DOMAIN UniqueIdNow.col.vals |-> UniqueIdNow.col.vals[i].n] = <<41987, 43011>>
    /\ cat.consulted

\* a batch that lost all its rows to the null filter gave an empty unique
\* identifier column
C17_WitnessEmpty ==
    /\ IdBatch
    /\ cat._current_chunk.len = 0
    /\ Contains(iter_column_names(cat), "uniqueId")
    /\ UniqueIdNow.col = IdColumn
    /\ ~cat.consulted

\* C18 as stated: two rows whose (identifier, object-type id) pairs differ,
\* with identifiers not below zero and any object-type ids, get different
\* unique identifiers under the same shift.
C18_AsStated ==
    (pair.done /\ pair.a # pair.b) => pair.ua # pair.ub

\* C18: two rows whose (identifier, object-type id) pairs differ, with
\* identifiers not below zero and object-type ids from 0 to 2^nShift - 1,
\* get different unique identifiers under the same shift.
C18_UniqueAcrossTypes ==
    (/\ pair.done
     /\ pair.a # pair.b
     /\ pair.a.typeId \in 0..(2 ^ pair.nShift - 1)
     /\ pair.b.typeId \in 0..(2 ^ pair.nShift - 1)) => pair.ua # pair.ub

\* identifier 1 of a source of type 3 and identifier 2 of a source of type
\* 1023 got the unique identifiers 1027 and 3071
C18_Witness ==
    /\ pair.done
    /\ pair.a = Row(1, 3) /\ pair.b = Row(2, 1023)
    /\ pair.nShift = 10
    /\ pair.ua = 1027 /\ pair.ub = 3071

\* the steps the client takes on its ObservationMetaData object
ObsStep ==
    \/ \E a \in ObsArgs : ObsConstruct(a)
    \/ \E metaData \in MetaDatas : ObsAssignPhoSimMetaData(metaData)
    \/ ObsBuildBounds
    \/ \E name \in Properties, value \in AttrValues : ObsSetAttr(name, value)

ContextFields(o) ==
    <<o._unrefractedRA, o._unrefractedDec, o._rotSkyPos, o._mjd, o._bandpass, o._bounds,
      o._m5>>

Taken(metaData, key, old) ==
    IF metaData = None THEN old
    ELSE IF key \in DOMAIN Val(metaData) THEN Just(Val(metaData)[key]) ELSE old

BandpassGiven(a) ==
    IF a.phoSimMetadata # None /\ "Opsim_filter" \in DOMAIN Val(a.phoSimMetadata)
    THEN [list |-> FALSE, v |-> <<Val(a.phoSimMetadata)["Opsim_filter"]>>]
    ELSE a.bandpassName

\* a magnitude is given and exactly one of bandpass and magnitude is a
\* list, or both are lists of different lengths
M5Mismatch(a) ==
    /\ a.m5 # None
    /\ \/ BandpassGiven(a).list # Val(a.m5).list
       \/ Len(BandpassGiven(a).v) # Len(Val(a.m5).v)

\* the pointing coordinate ObservationMetaData(a) has when it builds bounds
PointingGiven(a, arg, key) ==
    IF a.phoSimMetadata # None /\ key \in DOMAIN Val(a.phoSimMetadata)
    THEN Just(Val(a.phoSimMetadata)[key])
    ELSE a[arg]

\* a bound shape is given and the bound size or a pointing coordinate is
\* missing
BoundsMismatch(a) ==
    /\ a.boundType # None
    /\ \/ a.boundLength = None
       \/ PointingGiven(a, "unrefractedRA", "Unrefracted_RA") = None
       \/ PointingGiven(a, "unrefractedDec", "Unrefracted_Dec") = None

\* C21: constructing an observation context fails when exactly one of
\* bandpass and magnitude is a list or both are lists of different lengths;
\* otherwise a context constructed with magnitudes maps the i-th bandpass to
\* the i-th magnitude and has no other key, and one constructed without
\* magnitudes has no magnitude map.
C21_M5Map ==
    [][\A a \in CtxArgs :
         ObsConstruct(a)
           => /\ M5Mismatch(a) => raised'.exc = "InvalidContext" /\ obs' = obs
              /\ (~M5Mismatch(a) /\ ~BoundsMismatch(a)) => raised' = NoError
              /\ (raised' = NoError /\ a.m5 = None) => obs'._m5 = None
              /\ (raised' = NoError /\ a.m5 # None)
                   => /\ obs'._m5 # None
                      /\ DOMAIN Val(obs'._m5) = Range(BandpassGiven(a).v)
                      /\ \A i \in DOMAIN BandpassGiven(a).v :
                           Val(obs'._m5)[BandpassGiven(a).v[i]] = Val(a.m5).v[i]]_vars

\* three bandpasses were given a magnitude each, after a construction with
\* two bandpasses and one magnitude failed
C21_Witness ==
    /\ raised = NoError
    /\ obs._bandpass = List(<<"u", "g", "r">>)
    /\ obs._m5 = Just([u |-> 10, g |-> 11, r |-> 12])

\* the construction with a list of magnitudes and one bandpass has just
\* failed and left the client with the context it had
C21_WitnessError ==
    /\ raised = Error("InvalidContext", {"bandpassName"})
    /\ obs._m5 = Just([r |-> 25])

\* C22: the magnitude map of an observation context is unset or keyed by
\* exactly the current bandpass set, also after PhoSim metadata replaced
\* the bandpass.
C22_M5KeyedByBandpass ==
    obs._m5 = None \/ DOMAIN Val(obs._m5) = Range(obs._bandpass.v)

\* C23: constructing an observation context with a bound shape fails when
\* the bound size or, after the PhoSim overrides, a pointing coordinate is
\* missing; without a bound shape no bounds are built and bounds raise no
\* error; bounds exist only when shape, size and both coordinates are set.
C23_BoundsPrerequisites ==
    /\ [](obs._bounds # None
            => /\ obs._boundType # None
               /\ obs._boundLength # None
               /\ obs._unrefractedRA # None
               /\ obs._unrefractedDec # None)
    /\ [][\A a \in CtxArgs :
            ObsConstruct(a)
              => /\ BoundsMismatch(a) => raised'.exc = "InvalidContext" /\ obs' = obs
                 /\ (a.boundType = None /\ ~M5Mismatch(a)) => raised' = NoError
                 /\ (a.boundType = None /\ raised' = NoError) => obs'._bounds = None
                 /\ (a.boundType # None /\ raised' = NoError) => obs'._bounds # None]_vars

\* a context was constructed with a bound shape and no pointing arguments,
\* its pointing taken from the PhoSim metadata
C23_Witness ==
    /\ raised = NoError
    /\ obs._bounds # None
    /\ obs._unrefractedRA = Just(300)
    /\ obs._unrefractedDec = Just(400)
    /\ Val(obs._boundType) = "box"

\* C29: the bounds of an observation context are the bounds of its current
\* bound shape, bound size and pointing coordinates, also after
\* assignPhoSimMetaData overwrote a pointing coordinate.
C29_BoundsCurrent ==
    obs._bounds # None
      => /\ obs._boundType # None /\ obs._boundLength # None
         /\ obs._unrefractedRA # None /\ obs._unrefractedDec # None
         /\ Val(obs._bounds).boundType = Val(obs._boundType)
         /\ Val(obs._bounds).length = Val(obs._boundLength)
         /\ Val(obs._bounds).RA = Val(obs._unrefractedRA)
         /\ Val(obs._bounds).DEC = Val(obs._unrefractedDec)

\* a context constructed with bounds of 5 degrees has bounds of that size
\* around the pointing that assignPhoSimMetaData gave it later
C29_Witness ==
    /\ obs._bounds # None
    /\ obs._phoSimMetadata = Just([Unrefracted_RA |-> 300, Unrefracted_Dec |-> 400,
                                   Opsim_rotskypos |-> 500])
    /\ Val(obs._bounds).RA = 300
    /\ Val(obs._bounds).DEC = 400
    /\ Val(obs._bounds).length = Scalar(radians(5))

\* C24: once _check_requirements has run in the constructor, with or
\* without an exception, the switch of the column origins is off and stays
\* off, and no later call adds or changes an entry of the column origins.
C24_OriginsLatched ==
    /\ [](cat.state # "none" => ~cat._column_origins_switch)
    /\ [][cat.state # "none"
            => /\ ~cat'._column_origins_switch
               /\ cat'._column_origins = cat._column_origins]_vars

\* a write and an iteration have finished on a catalog whose constructor
\* logged a as a column of the database and d as a default column
C24_Witness ==
    /\ cat.state = "ready"
    /\ Len(results) = 2
    /\ results[1].mode = "write" /\ results[1].err = NoError
    /\ results[2].mode = "iter_catalog" /\ Len(results[2].rows) > 0
    /\ "a" \in DOMAIN cat._column_origins /\ cat._column_origins["a"] = "the database"
    /\ "d" \in DOMAIN cat._column_origins /\ cat._column_origins["d"] = "default column"

\* the constructor raised for missing columns after it logged the origins
C24_WitnessRaised ==
    /\ cat.state = "failed"
    /\ raised.exc = "MissingColumns"
    /\ DOMAIN cat._column_origins # {}

\* row i of the source of c holds a value that a transformation of c has no
\* code for
BadRow(c, i) ==
    \E n \in Range(iter_column_names(c)) \cap DOMAIN classes[c.cls].transformations :
      /\ classes[c.cls].transformations[n] = "code"
      /\ DbObject(c.db_obj).table[n].vals[i].s \notin {"r", "s"}

\* the number of rows in the batches before the first batch with a bad row
RowsBefore(c, chunk_size) ==
    IF chunk_size = 0 THEN 0
    ELSE (((CHOOSE i \in 1..DbObject(c.db_obj).nrows :
              BadRow(c, i) /\ \A k \in 1..(i - 1) : ~BadRow(c, k)) - 1) \div chunk_size)
         * chunk_size

\* the text of output column n in row i of the source of c
TextOf(c, n, i) ==
    IF n \in DOMAIN classes[c.cls].transformations
    THEN IF DbObject(c.db_obj).table[n].vals[i].s = "r" THEN "1" ELSE "2"
    ELSE IF DbObject(c.db_obj).table[n].kind = "i"
    THEN IntToStr(DbObject(c.db_obj).table[n].vals[i].n)
    ELSE DbObject(c.db_obj).table[n].vals[i].s

\* the line of row i of the source of c
LineOf(c, i) ==
    JoinStr([j \in DOMAIN iter_column_names(c) |-> TextOf(c, iter_column_names(c)[j], i)],
            ", ") \o "\n"

\* C25: when a transformation raises on a batch of a write call, the call
\* raises and the file holds what it held (nothing if opened with "w"),
\* the header if asked for, and the lines of every row of the batches
\* before that batch: no line of the batch that raised.
C25_BatchAtomic ==
    [][\A args \in WriteArgs :
         (/\ WriteCatalog(args)
          /\ classes[cat.cls].cannot_be_null = <<>>
          /\ \E i \in 1..DbObject(cat.db_obj).nrows : BadRow(cat, i))
           => /\ raised'.exc = "TransformError"
              /\ file'.lines
                   = (IF args.write_mode = "w" THEN <<>> ELSE file.lines)
                     \o (IF args.write_header
                         THEN <<"#" \o JoinStr(iter_column_names(cat), ", ") \o "\n">>
                         ELSE <<>>)
                     \o [i \in 1..RowsBefore(cat, args.chunk_size) |-> LineOf(cat, i)]]_vars

\* a write of the whole source in one batch left the header, and a second
\* write in batches of two rows added the two lines of the first batch and
\* raised on the second
C25_Witness ==
    /\ raised.exc = "TransformError"
    /\ Len(results) = 2
    /\ file.lines = <<"#id, formats\n", "7, 1\n", "8, 2\n">>

\* the rows _write_recarray emits for the batch chunk when _pre_screen is off
Unscreened(c, chunk) ==
    WriteLines(ChunkCols(FilterNulls(set_current_chunk(c, chunk),
                                     classes[c.cls].cannot_be_null),
                         iter_column_names(c))).rows

\* C26: a write call of a catalog whose type enables the pre-screen emits
\* the rows it would emit with the pre-screen off.
C26_PreScreenNeutral ==
    (cat.state = "ready" /\ classes[cat.cls]._pre_screen) =>
      \A k \in DOMAIN results :
        (results[k].mode = "write" /\ results[k].err = NoError) =>
          results[k].rows = Unscreened(cat, FullBatch(cat))

\* C27: when a second instance of the type of an instance has been
\* constructed, the column cache of the first (cat before the step) and the
\* column cache of the second (cat after it) are not both the dictionary of
\* the class, and no result cached through the first is in the cache the
\* second resolves from.
C27_NoSharedCache ==
    [][\A db_obj \in DbObjects, args \in CtorArgs :
         (SecondCatalog(db_obj, args) /\ cat'.state = "ready")
           => /\ ~(cat._column_cache.shared /\ cat'._column_cache.shared)
              /\ DOMAIN CacheOf(cat) \cap DOMAIN CacheOf(cat') = {}]_vars

\* c standing on the batch that holds every row of its source
OnSource(c) == set_current_chunk(c, FullBatch(c))

\* the rows of the source of c that batch k of a query in batches of
\* chunk_size rows holds (every row when chunk_size is None, here 0)
InBatch(c, chunk_size, k) ==
    IF chunk_size = 0 THEN 1..DbObject(c.db_obj).nrows
    ELSE {i \in 1..DbObject(c.db_obj).nrows :
            (k - 1) * chunk_size < i /\ i <= k * chunk_size}

\* the number of batches of such a query
NumBatches(c, chunk_size) ==
    IF chunk_size = 0 THEN 1
    ELSE (DbObject(c.db_obj).nrows + chunk_size - 1) \div chunk_size

RECURSIVE InOrder(_, _, _)
\* from batch k on: each batch taken from the source, then one line for
\* each of its rows that passes
InOrder(c, chunk_size, k) ==
    IF k > NumBatches(c, chunk_size) THEN <<>>
    ELSE <<"next">>
         \o [i \in 1..Cardinality({i \in InBatch(c, chunk_size, k) : Passes(OnSource(c), i)})
               |-> "line"]
         \o InOrder(c, chunk_size, k + 1)

\* the lines of the rows of the source of c that pass, in the source's order
RowLines(c) ==
    With(ChunkCols(OnSource(c), iter_column_names(c)).cols, LAMBDA cols :
      [k \in DOMAIN PassingRows(OnSource(c), cols) |->
         FormatLine(c._template.v, Kinds(cols), PassingRows(OnSource(c), cols)[k])])

\* C28: a write call that returns has written, after what the file held
\* when opened for appending, the header once if and only if asked for, then
\* one line for each row of the source that passes, in the source's order;
\* it took each batch from the source after the header and after every line
\* of the batch before it.
C28_OutputOrder ==
    [][\A args \in WriteArgs :
         (WriteCatalog(args) /\ raised' = NoError)
           => /\ file'.lines
                   = (IF args.write_mode = "w" THEN <<>> ELSE file.lines)
                     \o (IF args.write_header THEN <<header_line(cat)>> ELSE <<>>)
                     \o RowLines(cat')
              /\ written'.events
                   = (IF args.write_header THEN <<"header">> ELSE <<>>)
                     \o InOrder(cat', args.chunk_size, 1)]_vars

\* after a write with a header, a second call appended, in two batches of
\* which each had one row that passed
C28_Witness ==
    /\ raised = NoError
    /\ Len(results) = 2
    /\ results[2].chunk_size = 2
    /\ written.events = <<"next", "line", "next", "line">>
    /\ Len(file.lines) = 5
    /\ file.lines[1] = header_line(cat)
    /\ \A i \in 2..5 : file.lines[i] # header_line(cat)

\* C30: a class statement that fails because a sub-column of a compound
\* getter collides with a getter or with the claim of another compound
\* getter leaves the registry as it was, without the name of the failed type.
C30_AllOrNothing ==
    [][\A body \in ClassBodies :
         (DefineClass(body) /\ raised'.exc = "AmbiguousColumn")
           => /\ registry' = registry
              /\ MetaNew(body, classes[namespace[body.base]]).catalog_type
                   \notin DOMAIN registry']_vars

====
